---------------------------- MODULE Spec2Model ----------------------------
(***************************************************************************)
(* A model of b3270 (src/Common/b3270/b3270.c): the connection-state       *)
(* tracker b3270_connect, the stats reporter stats_poll, the security      *)
(* tracker b3270_secure, the version negotiator parse_version /            *)
(* check_min_version, the startup sequence of main, the toggle callback    *)
(* b3270_toggle, the actions Model, Trace and ClearRegion and the option   *)
(* scan sio_options; and of the codec tables ebc2asc0 and asc2ebc0         *)
(* (src/Common/tables.c).                                                  *)
(*                                                                         *)
(* The event loop is single-threaded: every action below is one complete   *)
(* callback, run from its first statement to its return; only the loop of  *)
(* sio_options is modelled pass by pass.                                   *)
(***************************************************************************)
EXTENDS Integers, Sequences, FiniteSets, TLC

VARIABLES
    cstate,         \* the engine's connection state (enum cstate)
    old_cstate,     \* b3270_connect's static old_cstate
    stats_ioid,     \* the id of the pending stats timeout, or NULL_IOID
    timeouts,       \* the ids of the timeouts pending in the event loop
    brcvd, rrcvd, bsent, rsent,                 \* the last-reported counters
    ns_brcvd, ns_rrcvd, ns_bsent, ns_rsent,     \* the engine's counters
    net_secure,     \* what net_secure_connection() returns
    is_secure,      \* b3270_secure's static is_secure
    handler,        \* the callback that ran last
    out,            \* the events that callback emitted, in order
    erased,         \* the number of ctlr_erase calls that callback made
    lastConn,       \* history: the state of the last connection event
    lastStats,      \* history: the counters of the last stats event
    lastSsl,        \* history: the secure flag of the last ssl event
    pc,             \* the position of the version negotiator
    text,           \* parse_version's argument
    parsed,         \* parse_version's result
    build_rpq_version,  \* the build's own version string
    min_version,    \* appres.min_version, or NULL
    our_major, our_minor, our_iteration,
    exit_status,    \* the status exit() was called with, or -1
    toggle,         \* toggled(ix), for every toggle index ix
    tracefile_name, \* the trace module's tracefile_name, or NULL
    argv,           \* the arguments of the action that ran last
    ret,            \* what that action returned
    output,         \* what it passed to action_output(), in order
    popups,         \* what it passed to popup_an_error(), in order
    ROWS, COLS,     \* the geometry of the screen buffer
    ea_buf,         \* the screen buffer, indexed by buffer address
    modified,       \* the buffer addresses marked modified
    old_screen,     \* history: ea_buf and modified before ClearRegion ran
    model_num,      \* the model number, 2..5
    m3279,          \* appres.m3279: colour (3279) or monochrome (3278)
    ov_rows, ov_cols,   \* the oversize geometry, 0 when there is none
    ebc,            \* the host (EBCDIC) code looked up in ebc2asc0
    asc,            \* the display code ebc2asc0 gave, or -1
    ebc2,           \* the host code asc2ebc0 gave for asc, or -1
    options,        \* sio_options: what sio_options_supported() returned
    opt,            \* sio_options: the option bit the scan is at
    v,              \* sio_options: the pieces appended to the varbuf
    sep             \* sio_options: the separator before the next name

connVars == <<cstate, old_cstate, stats_ioid, timeouts,
              brcvd, rrcvd, bsent, rsent,
              ns_brcvd, ns_rrcvd, ns_bsent, ns_rsent,
              net_secure, is_secure, handler, out, erased,
              lastConn, lastStats, lastSsl>>

verVars == <<pc, text, parsed, build_rpq_version, min_version,
             our_major, our_minor, our_iteration, exit_status>>

actVars == <<toggle, tracefile_name, argv, ret, output, popups,
             ROWS, COLS, ea_buf, modified, old_screen,
             model_num, m3279, ov_rows, ov_cols>>

\* The codec tables' lookups and the scan of sio_options.
libVars == <<ebc, asc, ebc2, options, opt, v, sep>>

vars == <<connVars, verVars, actVars, libVars>>

----------------------------------------------------------------------------
(* Bounds *)

\* The engine counts at most MaxTraffic units of traffic (bytes and records,
\* received and sent, together) between two resets of its counters.
MaxTraffic == 2

\* parse_version is applied to every text of at most MaxLen characters.
MaxLen == 5

\* check_min_version is applied to versions with components 0..MaxComponent.
MaxComponent == 1

\* A screen has BufCols columns.
BufCols == 2

\* The host has written at most MaxItems fields, characters and double-byte
\* pairs onto an erased screen.
MaxItems == 1

----------------------------------------------------------------------------
(* Program constants *)

NULL == "NULL"

NULL_IOID == 0

MAX_VERSION == 999

NOT_CONNECTED == 0

NUM_CSTATE == 13

cstate_name == <<"not-connected", "ssl-password-pending", "resolving",
                 "pending", "negotiating", "connected-initial",
                 "connected-nvt", "connected-nvt-charmode", "connected-3270",
                 "connected-unbound", "connected-e-nvt", "connected-sscp",
                 "connected-tn3270e">>

\* enum cstate: NOT_CONNECTED is the first enumerator.
CStates == 0 .. (NUM_CSTATE - 1)

\* current_host, the name of the host the engine is connected to.
current_host == "host"

\* What net_session_info() and net_server_cert_info() may return.
SecureInfos == {<<NULL, NULL>>, <<"TLS", "CN=host">>}

----------------------------------------------------------------------------
(* The event emitter and the timeouts of the event loop *)

\* lazyaf("%d", n)
lazyaf_d(n) == ToString(n)

\* ui_vleaf(tag, key, value, ..., NULL): an attribute whose value is NULL is
\* omitted from the event.
ui_vleaf(tag, pairs) ==
    [tag |-> tag, attrs |-> SelectSeq(pairs, LAMBDA p : p[2] # NULL)]

\* AddTimeOut: a new timeout, under an id no pending timeout has.
AddTimeOut(ts) == CHOOSE i \in 1 .. (Cardinality(ts) + 1) : i \notin ts

\* RemoveTimeOut(id)
RemoveTimeOut(ts, id) == ts \ {id}

\* A timeout is one-shot: the event loop takes the expired timeout id off its
\* list before it calls the timeout's procedure.
TimeOutExpires(ts, id) == ts \ {id}

----------------------------------------------------------------------------
(* Toggles *)

\* toggles[]: the toggle indices b3270 registers, in registration order.
toggles == <<"MONOCASE", "ALT_CURSOR", "CURSOR_BLINK", "TRACING",
             "VISIBLE_CONTROL", "CROSSHAIR", "OVERLAY_PASTE">>

TRACING == "TRACING"

ToggleIx == {toggles[i] : i \in 1 .. Len(toggles)}

\* toggle_names[]: the display name of a toggle index.
toggle_names ==
    [ix \in ToggleIx |->
        CASE ix = "MONOCASE"        -> "monoCase"
          [] ix = "ALT_CURSOR"      -> "altCursor"
          [] ix = "CURSOR_BLINK"    -> "cursorBlink"
          [] ix = "TRACING"         -> "trace"
          [] ix = "VISIBLE_CONTROL" -> "visibleControl"
          [] ix = "CROSSHAIR"       -> "crosshair"
          [] ix = "OVERLAY_PASTE"   -> "overlayPaste"]

\* Mutant: the file attribute is given whenever a trace file name is set.
ToggleFile_always(ix, tg, tf) == IF ix = TRACING THEN tf ELSE NULL

\* The file attribute of a toggle event: the trace file name, for TRACING
\* when it is on; tg is toggled() and tf is tracefile_name.
ToggleFile(ix, tg, tf) ==
    IF ix = TRACING /\ tg[ix] /\ tf # NULL THEN tf ELSE NULL

\* b3270_toggle(ix, tt): the events it emits.
b3270_toggle(ix, tg, tf) ==
    IF ix \notin DOMAIN toggle_names
    THEN <<>>
    ELSE << ui_vleaf("toggle",
              << <<"name", toggle_names[ix]>>,
                 <<"value", IF tg[ix] THEN "true" ELSE "false">>,
                 <<"file", ToggleFile(ix, tg, tf)>> >>) >>

----------------------------------------------------------------------------
(* The screen buffer *)

EBC_null == 0

EBC_so == 14

EBC_si == 15

EBC_space == 64

\* The fa of a cell that is no field attribute, and the two kinds of field
\* attribute.
NO_FA == "none"

FieldAttrs == {"unprotected", "protected"}

FA_IS_PROTECTED(fa) == fa = "protected"

\* enum dbcs_state
DBCS_NONE == "DBCS_NONE"

DBCS_SB == "DBCS_SB"

DBCS_LEFT == "DBCS_LEFT"

DBCS_RIGHT == "DBCS_RIGHT"

\* A cell of an erased screen.
ErasedCell == [cc |-> EBC_null, cs |-> 0, fa |-> NO_FA, db |-> DBCS_NONE]

\* The buffer of rows x cols cells that ctlr_erase() leaves.
ErasedBuf(rows, cols) == [a \in 0 .. (rows * cols - 1) |-> ErasedCell]

\* set_rows_cols(): the default geometry of model number n, scaled down to
\* n rows of BufCols columns.
DefaultRows(n) == n

DefaultCols(n) == BufCols

\* The actions at rest on an erased model 2 screen, every toggle off.
IdleAct ==
    /\ toggle = [ix \in ToggleIx |-> FALSE]
    /\ tracefile_name = NULL
    /\ argv = <<>>
    /\ ret = FALSE
    /\ output = <<>>
    /\ popups = <<>>
    /\ ROWS = DefaultRows(2)
    /\ COLS = DefaultCols(2)
    /\ ea_buf = ErasedBuf(DefaultRows(2), DefaultCols(2))
    /\ modified = {}
    /\ old_screen = [ea_buf |-> ErasedBuf(DefaultRows(2), DefaultCols(2)),
                     modified |-> {}]
    /\ model_num = 2
    /\ m3279 = TRUE
    /\ ov_rows = 0
    /\ ov_cols = 0

\* No table lookup and no option scan is under way.
IdleLib ==
    /\ ebc = 0
    /\ asc = -1
    /\ ebc2 = -1
    /\ options = 0
    /\ opt = 0
    /\ v = <<>>
    /\ sep = ""

----------------------------------------------------------------------------
(* Stats reporter *)

Baseline == <<brcvd, rrcvd, bsent, rsent>>

Engine == <<ns_brcvd, ns_rrcvd, ns_bsent, ns_rsent>>

\* dump_stats(), with the counters b = <<brcvd, rrcvd, bsent, rsent>>
dump_stats(b) ==
    ui_vleaf("stats", << <<"bytes-received", lazyaf_d(b[1])>>,
                         <<"records-received", lazyaf_d(b[2])>>,
                         <<"bytes-sent", lazyaf_d(b[3])>>,
                         <<"records-sent", lazyaf_d(b[4])>> >>)

\* Mutant: only the byte counters are compared.
StatsChanged_bytes(b, ns) == b[1] # ns[1] \/ b[3] # ns[3]

\* The comparison of stats_poll and of b3270_connect's final flush.
StatsChanged(b, ns) ==
    b[1] # ns[1] \/ b[2] # ns[2] \/ b[3] # ns[3] \/ b[4] # ns[4]

\* The stats timeout id expires: the event loop takes it off its list and
\* calls stats_poll(id).
stats_poll(id) ==
    /\ id \in timeouts
    /\ LET ch  == StatsChanged(Baseline, Engine)
           b1  == IF ch THEN Engine ELSE Baseline
           ts1 == TimeOutExpires(timeouts, id)
           new == AddTimeOut(ts1)
       IN  /\ brcvd' = b1[1]
           /\ rrcvd' = b1[2]
           /\ bsent' = b1[3]
           /\ rsent' = b1[4]
           /\ out' = IF ch THEN <<dump_stats(b1)>> ELSE <<>>
           /\ lastStats' = IF ch THEN b1 ELSE lastStats
           /\ stats_ioid' = new
           /\ timeouts' = ts1 \cup {new}
    /\ handler' = "stats_poll"
    /\ erased' = 0
    /\ UNCHANGED <<cstate, old_cstate, ns_brcvd, ns_rrcvd, ns_bsent, ns_rsent,
                   net_secure, is_secure, lastConn, lastSsl>>
    /\ UNCHANGED <<verVars, actVars, libVars>>

----------------------------------------------------------------------------
(* Connection state tracker *)

\* Mutant: only connected against not connected is compared.
SameState_connectedness(s, old) ==
    (s = NOT_CONNECTED) = (old = NOT_CONNECTED)

\* if (cstate == old_cstate) return;
SameState(s, old) == s = old

\* Mutant: the test of stats_ioid is inverted.
JustDisconnected_inverted(s, io) == s = NOT_CONNECTED /\ io = NULL_IOID

\* "If just disconnected": cstate == NOT_CONNECTED && stats_ioid != NULL_IOID
JustDisconnected(s, io) == s = NOT_CONNECTED /\ io # NULL_IOID

\* Mutant: stats_ioid is not tested.
JustConnected_untested(s, io) == s # NOT_CONNECTED

\* "If just connected": cstate != NOT_CONNECTED && stats_ioid == NULL_IOID
JustConnected(s, io) == s # NOT_CONNECTED /\ io = NULL_IOID

\* The connection event of state s, with the host only when connected.
ConnectionEvent(s) ==
    IF s = NOT_CONNECTED
    THEN ui_vleaf("connection", << <<"state", cstate_name[s + 1]>> >>)
    ELSE ui_vleaf("connection", << <<"state", cstate_name[s + 1]>>,
                                   <<"host", current_host>> >>)

\* Mutant: old_cstate is not tested.
EraseCalls_always(s, old) == IF s # NOT_CONNECTED THEN 1 ELSE 0

\* The number of ctlr_erase(true) calls: one when the state is other than
\* NOT_CONNECTED and old_cstate == NOT_CONNECTED.
EraseCalls(s, old) ==
    IF s # NOT_CONNECTED /\ old = NOT_CONNECTED THEN 1 ELSE 0

\* The engine changes cstate to s and signals ST_CONNECT, ST_HALF_CONNECT,
\* ST_3270_MODE or ST_LINE_MODE.
b3270_connect(s) ==
    /\ cstate' = s
    /\ handler' = "b3270_connect"
    /\ IF SameState(s, old_cstate)
       THEN /\ out' = <<>>
            /\ erased' = 0
            /\ UNCHANGED <<old_cstate, stats_ioid, timeouts,
                           brcvd, rrcvd, bsent, rsent, lastConn, lastStats>>
       ELSE LET disc  == JustDisconnected(s, stats_ioid)
                flush == disc /\ StatsChanged(Baseline, Engine)
                ts1   == IF disc THEN RemoveTimeOut(timeouts, stats_ioid)
                                 ELSE timeouts
                io1   == IF disc THEN NULL_IOID ELSE stats_ioid
                b1    == IF flush THEN Engine ELSE Baseline
                out1  == IF flush THEN <<dump_stats(b1)>> ELSE <<>>
                out2  == Append(out1, ConnectionEvent(s))
                conn  == JustConnected(s, io1)
                b2    == IF conn THEN <<0, 0, 0, 0>> ELSE b1
                out3  == IF conn THEN Append(out2, dump_stats(b2)) ELSE out2
                new   == AddTimeOut(ts1)
            IN  /\ out' = out3
                /\ erased' = EraseCalls(s, old_cstate)
                /\ brcvd' = b2[1]
                /\ rrcvd' = b2[2]
                /\ bsent' = b2[3]
                /\ rsent' = b2[4]
                /\ stats_ioid' = IF conn THEN new ELSE io1
                /\ timeouts' = IF conn THEN ts1 \cup {new} ELSE ts1
                /\ lastConn' = s
                /\ lastStats' = IF conn THEN b2 ELSE IF flush THEN b1
                                ELSE lastStats
                /\ old_cstate' = s
    /\ IF ~SameState(s, old_cstate) /\ EraseCalls(s, old_cstate) > 0
       THEN /\ ea_buf' = ErasedBuf(ROWS, COLS)
            /\ modified' = {}
       ELSE UNCHANGED <<ea_buf, modified>>
    /\ UNCHANGED <<ns_brcvd, ns_rrcvd, ns_bsent, ns_rsent,
                   net_secure, is_secure, lastSsl>>
    /\ UNCHANGED <<verVars, libVars, toggle, tracefile_name, argv, ret, output,
                   popups, ROWS, COLS, old_screen,
                   model_num, m3279, ov_rows, ov_cols>>

----------------------------------------------------------------------------
(* Security tracker *)

\* Mutant: the verified attribute is given a value also when not secure.
VerifiedAttr_always(sec, unverified) ==
    IF unverified THEN "false" ELSE "true"

\* The value of the verified attribute: NULL when the connection is not
\* secure.
VerifiedAttr(sec, unverified) ==
    IF sec THEN (IF unverified THEN "false" ELSE "true") ELSE NULL

\* The engine signals ST_SECURE; net_secure_connection() returns sec,
\* net_secure_unverified() unverified, net_session_info() session and
\* net_server_cert_info() cert.
b3270_secure(sec, unverified, session, cert) ==
    /\ net_secure' = sec
    /\ handler' = "b3270_secure"
    /\ erased' = 0
    /\ IF sec = is_secure
       THEN /\ out' = <<>>
            /\ UNCHANGED <<is_secure, lastSsl>>
       ELSE /\ is_secure' = sec
            /\ out' = << ui_vleaf("ssl",
                          << <<"secure", IF sec THEN "true" ELSE "false">>,
                             <<"verified", VerifiedAttr(sec, unverified)>>,
                             <<"session", session>>,
                             <<"host-cert", cert>> >>) >>
            /\ lastSsl' = sec
    /\ UNCHANGED <<cstate, old_cstate, stats_ioid, timeouts,
                   brcvd, rrcvd, bsent, rsent,
                   ns_brcvd, ns_rrcvd, ns_bsent, ns_rsent,
                   lastConn, lastStats>>
    /\ UNCHANGED <<verVars, actVars, libVars>>

----------------------------------------------------------------------------
(* The engine's traffic counters *)

\* The engine counts one byte or record received or sent: one of ns_brcvd,
\* ns_rrcvd, ns_bsent, ns_rsent goes up by one. No callback of this module
\* runs.
net_count(k) ==
    /\ ns_brcvd + ns_rrcvd + ns_bsent + ns_rsent < MaxTraffic
    /\ ns_brcvd' = IF k = 1 THEN ns_brcvd + 1 ELSE ns_brcvd
    /\ ns_rrcvd' = IF k = 2 THEN ns_rrcvd + 1 ELSE ns_rrcvd
    /\ ns_bsent' = IF k = 3 THEN ns_bsent + 1 ELSE ns_bsent
    /\ ns_rsent' = IF k = 4 THEN ns_rsent + 1 ELSE ns_rsent
    /\ handler' = "none"
    /\ out' = <<>>
    /\ erased' = 0
    /\ UNCHANGED <<cstate, old_cstate, stats_ioid, timeouts,
                   brcvd, rrcvd, bsent, rsent, net_secure, is_secure,
                   lastConn, lastStats, lastSsl>>
    /\ UNCHANGED <<verVars, actVars, libVars>>

\* The engine resets its counters for a new session.
net_reset ==
    /\ Engine # <<0, 0, 0, 0>>
    /\ ns_brcvd' = 0
    /\ ns_rrcvd' = 0
    /\ ns_bsent' = 0
    /\ ns_rsent' = 0
    /\ handler' = "none"
    /\ out' = <<>>
    /\ erased' = 0
    /\ UNCHANGED <<cstate, old_cstate, stats_ioid, timeouts,
                   brcvd, rrcvd, bsent, rsent, net_secure, is_secure,
                   lastConn, lastStats, lastSsl>>
    /\ UNCHANGED <<verVars, actVars, libVars>>

----------------------------------------------------------------------------
(* The event loop *)

\* The state after main() has registered the callbacks: the statics hold
\* their initializers.
InitConn ==
    /\ cstate = NOT_CONNECTED
    /\ old_cstate = NOT_CONNECTED
    /\ stats_ioid = NULL_IOID
    /\ timeouts = {}
    /\ brcvd = 0 /\ rrcvd = 0 /\ bsent = 0 /\ rsent = 0
    /\ ns_brcvd = 0 /\ ns_rrcvd = 0 /\ ns_bsent = 0 /\ ns_rsent = 0
    /\ net_secure = FALSE
    /\ is_secure = FALSE
    /\ handler = "none"
    /\ out = <<>>
    /\ erased = 0
    /\ lastConn = NOT_CONNECTED
    /\ lastStats = <<0, 0, 0, 0>>
    /\ lastSsl = FALSE

\* The version negotiator at rest.
IdleVer ==
    /\ pc = "idle"
    /\ text = <<>>
    /\ parsed = [ok |-> FALSE, major |-> 0, minor |-> 0, iteration |-> 0]
    /\ build_rpq_version = <<>>
    /\ min_version = <<"NULL">>
    /\ our_major = 0 /\ our_minor = 0 /\ our_iteration = 0
    /\ exit_status = -1

Init == InitConn /\ IdleVer /\ IdleAct /\ IdleLib

Next ==
    \/ \E s \in CStates : b3270_connect(s)
    \/ \E id \in timeouts : stats_poll(id)
    \/ \E sec \in BOOLEAN, unverified \in BOOLEAN, info \in SecureInfos :
            b3270_secure(sec, unverified, info[1], info[2])
    \/ \E k \in 1 .. 4 : net_count(k)
    \/ net_reset

Spec == Init /\ [][Next]_vars

----------------------------------------------------------------------------
(* Version negotiator: C strings and strtoul *)

\* A C string is the sequence of its characters; the character at a position
\* past the last one is the terminating NUL.
NUL == "NUL"

CharAt(t, p) == IF p >= 1 /\ p <= Len(t) THEN t[p] ELSE NUL

DigitChars == <<"0", "1", "2", "3", "4", "5", "6", "7", "8", "9">>

\* isdigit(c)
isdigit(c) == \E i \in 1 .. 10 : DigitChars[i] = c

DigitValue(c) == (CHOOSE i \in 1 .. 10 : DigitChars[i] = c) - 1

\* isspace(c)
isspace(c) == c \in {" ", "\t", "\n", "\r"}

\* The first position from p on whose character is no white space.
RECURSIVE SkipSpaces(_, _)
SkipSpaces(t, p) == IF isspace(CharAt(t, p)) THEN SkipSpaces(t, p + 1) ELSE p

\* The first position from p on whose character is no digit.
RECURSIVE DigitsEnd(_, _)
DigitsEnd(t, p) == IF isdigit(CharAt(t, p)) THEN DigitsEnd(t, p + 1) ELSE p

\* The value of the digits at positions p .. e - 1, after acc.
RECURSIVE Accumulate(_, _, _, _)
Accumulate(t, p, e, acc) ==
    IF p >= e THEN acc
    ELSE Accumulate(t, p + 1, e, acc * 10 + DigitValue(t[p]))

\* strtoul(t + p - 1, &ptr, 10): white space, an optional sign, digits.
\* ptr is the position after the last digit, or p when there are no digits.
\* The value is mag, negated as an unsigned long when neg: ULONG_MAX + 1 - mag.
\* (A text of the model has at most 9 digits, so mag does not overflow.)
strtoul(t, p) ==
    LET q  == SkipSpaces(t, p)
        sg == CharAt(t, q) \in {"+", "-"}
        d  == IF sg THEN q + 1 ELSE q
        e  == DigitsEnd(t, d)
    IN  IF e = d
        THEN [mag |-> 0, neg |-> FALSE, ptr |-> p]
        ELSE [mag |-> Accumulate(t, d, e, 0),
              neg |-> CharAt(t, q) = "-",
              ptr |-> e]

\* n > MAX_VERSION, for the unsigned long n that strtoul returned: a negated
\* value other than 0 is ULONG_MAX + 1 - mag, which is above MAX_VERSION.
ExceedsMaxVersion(n) ==
    IF n.neg /\ n.mag # 0 THEN TRUE ELSE n.mag > MAX_VERSION

\* Mutant: the text between minor and iteration is not skipped.
SkipNonDigits_none(t, p) == p

\* while (!isdigit(*t) && *t != '\0') t++;
RECURSIVE SkipNonDigits(_, _)
SkipNonDigits(t, p) ==
    IF ~isdigit(CharAt(t, p)) /\ CharAt(t, p) # NUL
    THEN SkipNonDigits(t, p + 1)
    ELSE p

VersionResult(ok, major, minor, iteration) ==
    [ok |-> ok, major |-> major, minor |-> minor, iteration |-> iteration]

\* parse_version(text, &major, &minor, &iteration): the value returned and
\* what is left in major, minor and iteration. Position 1 is text.
parse_version(t) ==
    LET n1 == strtoul(t, 1)
    IN  IF n1.ptr = 1
           \/ (CharAt(t, n1.ptr) # "." /\ CharAt(t, n1.ptr) # NUL)
           \/ ExceedsMaxVersion(n1)
        THEN VersionResult(FALSE, 0, 0, 0)
        ELSE IF CharAt(t, n1.ptr) = NUL
        THEN VersionResult(TRUE, n1.mag, 0, 0)
        ELSE
    LET t2 == n1.ptr + 1
        n2 == strtoul(t, t2)
    IN  \* if (ptr == text || n > MAX_VERSION)
        IF n2.ptr = 1 \/ ExceedsMaxVersion(n2)
        THEN VersionResult(FALSE, n1.mag, 0, 0)
        ELSE IF CharAt(t, n2.ptr) = NUL
        THEN VersionResult(TRUE, n1.mag, n2.mag, 0)
        ELSE
    LET t3 == SkipNonDigits(t, n2.ptr)
        n3 == strtoul(t, t3)
    IN  IF CharAt(t, t3) = NUL
        THEN VersionResult(FALSE, n1.mag, n2.mag, 0)
        ELSE IF n3.ptr = t3 \/ CharAt(t, n3.ptr) # NUL
                \/ ExceedsMaxVersion(n3)
        THEN VersionResult(FALSE, n1.mag, n2.mag, 0)
        ELSE VersionResult(TRUE, n1.mag, n2.mag, n3.mag)

\* The comparison of check_min_version.
TooOld(our, min) ==
    \/ our.major < min.major
    \/ our.minor < min.minor
    \/ our.iteration < min.iteration

\* A NULL min_version.
NULL_TEXT == <<NULL>>

\* check_min_version(appres.min_version), to its return or to exit(1).
check_min_version ==
    /\ pc = "check"
    /\ LET our == parse_version(build_rpq_version)
           min == parse_version(min_version)
           fatal == \/ ~our.ok
                    \/ /\ min_version # NULL_TEXT
                       /\ (~min.ok \/ TooOld(our, min))
       IN  /\ our_major' = our.major
           /\ our_minor' = our.minor
           /\ our_iteration' = our.iteration
           /\ pc' = IF fatal THEN "exited" ELSE "returned"
           /\ exit_status' = IF fatal THEN 1 ELSE exit_status
    /\ UNCHANGED <<text, parsed, build_rpq_version, min_version>>
    /\ UNCHANGED <<connVars, actVars, libVars>>

\* A call of parse_version on text.
ParseText ==
    /\ pc = "parse"
    /\ parsed' = parse_version(text)
    /\ pc' = "parsed"
    /\ UNCHANGED <<text, build_rpq_version, min_version,
                   our_major, our_minor, our_iteration, exit_status>>
    /\ UNCHANGED <<connVars, actVars, libVars>>

----------------------------------------------------------------------------
(* Version negotiator: the texts it is applied to *)

ParseChars == {"0", "1", ".", "a", "+", "-", " "}

\* The version texts of the comment of parse_version, a text that is no
\* version, and texts with no digits after the dot.
ExampleTexts ==
    { <<"3", ".", "4", "g", "a", "1", "0">>,
      <<"3", ".", "5", "a", "l", "p", "h", "a", "3">>,
      <<"3", ".", "4">>,
      <<"3">>,
      <<"b", "a", "d">>,
      <<"3", ".">>,
      <<"3", ".", "g", "a", "1", "0">> }

ParseTexts ==
    UNION {[1 .. n -> ParseChars] : n \in 0 .. MaxLen} \cup ExampleTexts

InitParse ==
    /\ InitConn
    /\ pc = "parse"
    /\ text \in ParseTexts
    /\ parsed = [ok |-> FALSE, major |-> 0, minor |-> 0, iteration |-> 0]
    /\ build_rpq_version = <<>>
    /\ min_version = NULL_TEXT
    /\ our_major = 0 /\ our_minor = 0 /\ our_iteration = 0
    /\ exit_status = -1
    /\ IdleAct
    /\ IdleLib

SpecParse == InitParse /\ [][ParseText]_vars

Components == 0 .. MaxComponent

\* The version texts "a", "a.b" and "a.bgac" with components in Components,
\* and a text that is no version.
CheckTexts ==
    {<<DigitChars[a + 1]>> : a \in Components}
    \cup {<<DigitChars[a + 1], ".", DigitChars[b + 1]>> :
            a \in Components, b \in Components}
    \cup {<<DigitChars[a + 1], ".", DigitChars[b + 1], "g", "a",
            DigitChars[c + 1]>> :
            a \in Components, b \in Components, c \in Components}
    \cup {<<"b", "a", "d">>}

InitCheck ==
    /\ InitConn
    /\ pc = "check"
    /\ text = <<>>
    /\ parsed = [ok |-> FALSE, major |-> 0, minor |-> 0, iteration |-> 0]
    /\ build_rpq_version \in CheckTexts
    /\ min_version \in CheckTexts \cup {NULL_TEXT}
    /\ our_major = 0 /\ our_minor = 0 /\ our_iteration = 0
    /\ exit_status = -1
    /\ IdleAct
    /\ IdleLib

SpecCheck == InitCheck /\ [][check_min_version]_vars

----------------------------------------------------------------------------
(* Reading the events of a callback *)

\* The events of o that carry the tag.
EventsOf(o, tag) == SelectSeq(o, LAMBDA e : e.tag = tag)

HasAttr(e, key) == \E i \in 1 .. Len(e.attrs) : e.attrs[i][1] = key

AttrValue(e, key) ==
    e.attrs[CHOOSE i \in 1 .. Len(e.attrs) : e.attrs[i][1] = key][2]

\* A stats event that carries the counters c.
IsStatsOf(e, c) ==
    /\ e.tag = "stats"
    /\ Len(e.attrs) = 4
    /\ e.attrs[1] = <<"bytes-received", ToString(c[1])>>
    /\ e.attrs[2] = <<"records-received", ToString(c[2])>>
    /\ e.attrs[3] = <<"bytes-sent", ToString(c[3])>>
    /\ e.attrs[4] = <<"records-sent", ToString(c[4])>>

----------------------------------------------------------------------------
(* Connection state tracker, stats reporter and security tracker: claims *)

\* C1: a state notification emits a connection event (one, naming the current
\* state) exactly when the current state differs from the state of the
\* previous connection event, initially not-connected; a notification of the
\* state of the previous connection event emits nothing and erases nothing.
C1_ConnectionOnChangeOnly ==
    [][handler' = "b3270_connect" =>
        IF cstate' # lastConn
        THEN /\ Len(EventsOf(out', "connection")) = 1
             /\ AttrValue(EventsOf(out', "connection")[1], "state")
                    = cstate_name[cstate' + 1]
             /\ lastConn' = cstate'
        ELSE /\ out' = <<>>
             /\ erased' = 0
             /\ lastConn' = lastConn]_vars

\* C1 witness: a notification while connected that repeats the state of the
\* previous connection event and emits nothing.
C1_Witness ==
    /\ handler = "b3270_connect"
    /\ cstate # NOT_CONNECTED
    /\ cstate = lastConn
    /\ out = <<>>

\* A notification that takes the tracker out of or into not-connected.
ConnectBoundary == old_cstate = NOT_CONNECTED /\ cstate' # NOT_CONNECTED

DisconnectBoundary == old_cstate # NOT_CONNECTED /\ cstate' = NOT_CONNECTED

\* C2 as stated: on every tick and on every connect or disconnect boundary a
\* stats event is emitted if and only if one of the four counters differs
\* from the last emitted snapshot.
C2_StatsIffChanged_AsStated ==
    [][(\/ handler' = "stats_poll"
        \/ handler' = "b3270_connect"
             /\ (ConnectBoundary \/ DisconnectBoundary))
       => (Len(EventsOf(out', "stats")) > 0 <=> lastStats # Engine)]_vars

\* C2 as amended: on every tick and on every disconnect boundary a stats
\* event (one, carrying the engine's counters) is emitted if and only if one
\* of the four counters differs from the last emitted snapshot; on every
\* connect boundary one stats event with all four counters zero is emitted
\* whether or not a counter differs.
C2_StatsIffChanged ==
    [][/\ (\/ handler' = "stats_poll"
           \/ handler' = "b3270_connect" /\ DisconnectBoundary)
          => IF lastStats # Engine
             THEN /\ Len(EventsOf(out', "stats")) = 1
                  /\ IsStatsOf(EventsOf(out', "stats")[1], Engine)
                  /\ lastStats' = Engine
             ELSE /\ EventsOf(out', "stats") = <<>>
                  /\ lastStats' = lastStats
       /\ (handler' = "b3270_connect" /\ ConnectBoundary)
          => /\ Len(EventsOf(out', "stats")) = 1
             /\ IsStatsOf(EventsOf(out', "stats")[1], <<0, 0, 0, 0>>)
             /\ lastStats' = <<0, 0, 0, 0>>]_vars

\* C2 witness: a tick that found a changed counter and emitted a stats event.
C2_Witness ==
    /\ handler = "stats_poll"
    /\ Len(out) = 1
    /\ IsStatsOf(out[1], Engine)
    /\ Engine # <<0, 0, 0, 0>>

\* C3: on a transition into not-connected with a counter that differs from
\* the last-reported values, the handler emits the final stats event, with
\* the engine's counters, and then the connection event, and nothing else;
\* and while the tracker is in not-connected no stats event is emitted until
\* the transition out of it.
C3_FinalStatsBeforeConnection ==
    [][/\ (handler' = "b3270_connect" /\ DisconnectBoundary
              /\ Baseline # Engine)
          => /\ Len(out') = 2
             /\ IsStatsOf(out'[1], Engine)
             /\ out'[2].tag = "connection"
             /\ AttrValue(out'[2], "state") = "not-connected"
             /\ ~HasAttr(out'[2], "host")
       /\ (lastConn = NOT_CONNECTED /\ lastConn' = NOT_CONNECTED)
          => EventsOf(out', "stats") = <<>>]_vars

\* C3 witness: the handler of a disconnect has emitted the final stats event
\* and the connection event.
C3_Witness ==
    /\ handler = "b3270_connect"
    /\ cstate = NOT_CONNECTED
    /\ Len(out) = 2
    /\ out[1].tag = "stats"
    /\ out[2].tag = "connection"

\* C4: after every handler, one stats timeout is pending if the last observed
\* state is other than not-connected and none if it is not-connected, and
\* stats_ioid names the pending timeout.
C4_OneTimerWhileConnected ==
    /\ Cardinality(timeouts) = IF old_cstate = NOT_CONNECTED THEN 0 ELSE 1
    /\ stats_ioid = NULL_IOID <=> old_cstate = NOT_CONNECTED
    /\ stats_ioid # NULL_IOID => timeouts = {stats_ioid}

\* C4 witness: the timeout has fired while connected and is pending again.
C4_Witness ==
    /\ handler = "stats_poll"
    /\ old_cstate # NOT_CONNECTED
    /\ Cardinality(timeouts) = 1

\* C5: the tracker erases the screen buffer once on a notification that
\* takes it from not-connected to another state, and not at all on any other
\* notification; the other callbacks do not erase.
C5_EraseOnConnectOnly ==
    [][/\ handler' = "b3270_connect"
          => erased' = IF lastConn = NOT_CONNECTED /\ cstate' # NOT_CONNECTED
                       THEN 1 ELSE 0
       /\ handler' # "b3270_connect" => erased' = 0]_vars

\* C5 witness: the handler of a connect has erased the buffer.
C5_Witness ==
    /\ handler = "b3270_connect"
    /\ erased = 1
    /\ cstate # NOT_CONNECTED

\* C6: a security notification emits an ssl event (one, and nothing else)
\* exactly when the engine's secure flag differs from the flag of the
\* previous ssl event, initially not secure; the event carries the verified
\* attribute if and only if the connection is secure.
C6_SslOnFlipOnly ==
    [][handler' = "b3270_secure" =>
        IF net_secure' # lastSsl
        THEN /\ Len(out') = 1
             /\ out'[1].tag = "ssl"
             /\ AttrValue(out'[1], "secure")
                    = (IF net_secure' THEN "true" ELSE "false")
             /\ HasAttr(out'[1], "verified") <=> net_secure'
             /\ lastSsl' = net_secure'
        ELSE /\ out' = <<>>
             /\ lastSsl' = lastSsl]_vars

\* C6 witness: the connection has gone back to not secure and the ssl event
\* carries no verified attribute.
C6_Witness ==
    /\ handler = "b3270_secure"
    /\ Len(out) = 1
    /\ out[1].tag = "ssl"
    /\ ~net_secure
    /\ ~HasAttr(out[1], "verified")

----------------------------------------------------------------------------
(* Version negotiator: claims *)

\* The grammar <digits>["." <digits> [<non-digit-run> <digits>]].
IsDigits(t) == Len(t) > 0 /\ \A i \in 1 .. Len(t) : isdigit(t[i])

IsNonDigits(t) == Len(t) > 0 /\ \A i \in 1 .. Len(t) : ~isdigit(t[i])

\* The number a run of digits denotes.
RECURSIVE Decimal(_)
Decimal(t) ==
    IF t = <<>> THEN 0
    ELSE 10 * Decimal(SubSeq(t, 1, Len(t) - 1)) + DigitValue(t[Len(t)])

\* The ways to read t by the grammar: the components it denotes.
GrammarReadings(t) ==
    {<<Decimal(t), 0, 0>> : x \in {1} \cap {IF IsDigits(t) THEN 1 ELSE 0}}
    \cup
    {<<Decimal(SubSeq(t, 1, i - 1)), Decimal(SubSeq(t, i + 1, Len(t))), 0>> :
        i \in {i \in 1 .. Len(t) :
                /\ t[i] = "."
                /\ IsDigits(SubSeq(t, 1, i - 1))
                /\ IsDigits(SubSeq(t, i + 1, Len(t)))}}
    \cup
    {<<Decimal(SubSeq(t, 1, x[1] - 1)),
       Decimal(SubSeq(t, x[1] + 1, x[2])),
       Decimal(SubSeq(t, x[3], Len(t)))>> :
        x \in {x \in (1 .. Len(t)) \X (1 .. Len(t)) \X (1 .. Len(t)) :
                /\ x[1] < x[2] /\ x[2] + 1 < x[3]
                /\ t[x[1]] = "."
                /\ IsDigits(SubSeq(t, 1, x[1] - 1))
                /\ IsDigits(SubSeq(t, x[1] + 1, x[2]))
                /\ IsNonDigits(SubSeq(t, x[2] + 1, x[3] - 1))
                /\ IsDigits(SubSeq(t, x[3], Len(t)))}}

\* t matches the grammar with every component at most 999.
MatchesGrammar(t) ==
    \E g \in GrammarReadings(t) : \A k \in 1 .. 3 : g[k] <= MAX_VERSION

Parsed(major, minor, iteration) ==
    [ok |-> TRUE, major |-> major, minor |-> minor, iteration |-> iteration]

\* C7: parse_version yields (3,4,10) for "3.4ga10", (3,5,3) for "3.5alpha3",
\* (3,4,0) for "3.4", (3,0,0) for "3" and fails for "bad"; and every text the
\* grammar reads with components of at most 999 parses to those components:
\* (major,0,0) for a bare major, (major,minor,0) for major.minor, and the
\* non-digits between minor and iteration are skipped.
C7_ParseVersionExamples ==
    pc = "parsed" =>
        /\ text = <<"3", ".", "4", "g", "a", "1", "0">>
            => parsed = Parsed(3, 4, 10)
        /\ text = <<"3", ".", "5", "a", "l", "p", "h", "a", "3">>
            => parsed = Parsed(3, 5, 3)
        /\ text = <<"3", ".", "4">> => parsed = Parsed(3, 4, 0)
        /\ text = <<"3">> => parsed = Parsed(3, 0, 0)
        /\ text = <<"b", "a", "d">> => ~parsed.ok
        /\ \A g \in GrammarReadings(text) :
              (\A k \in 1 .. 3 : g[k] <= MAX_VERSION)
                  => parsed = Parsed(g[1], g[2], g[3])

\* C7 witness: "3.5alpha3" has been parsed, its suffix skipped.
C7_Witness ==
    /\ pc = "parsed"
    /\ text = <<"3", ".", "5", "a", "l", "p", "h", "a", "3">>
    /\ parsed.ok
    /\ parsed.iteration = 3

\* C8 as stated: parse_version succeeds on a text if and only if the text
\* matches the grammar with every component at most 999, and on success each
\* of major, minor and iteration lies in 0..999.
C8_ParsesExactlyTheGrammar ==
    pc = "parsed" =>
        /\ parsed.ok <=> MatchesGrammar(text)
        /\ parsed.ok => /\ parsed.major \in 0 .. MAX_VERSION
                        /\ parsed.minor \in 0 .. MAX_VERSION
                        /\ parsed.iteration \in 0 .. MAX_VERSION

\* The versions check_min_version compares.
Our == <<our_major, our_minor, our_iteration>>

Min ==
    LET m == parse_version(min_version)
    IN  <<m.major, m.minor, m.iteration>>

\* a is less than b, component by component: major, then minor, then
\* iteration.
LexLess(a, b) ==
    \/ a[1] < b[1]
    \/ a[1] = b[1] /\ a[2] < b[2]
    \/ a[1] = b[1] /\ a[2] = b[2] /\ a[3] < b[3]

\* The build version and the configured minimum both parse.
BothParse ==
    /\ min_version # NULL_TEXT
    /\ parse_version(min_version).ok
    /\ parse_version(build_rpq_version).ok

\* C9 as stated: with a minimum version that parses, check_min_version exits
\* with a non-zero status exactly when the build version is less than the
\* minimum, compared by major, then minor, then iteration, and returns
\* otherwise; with no minimum it returns.
C9_ExitsIffOlder ==
    pc # "check" =>
        /\ BothParse =>
              /\ pc = "exited" <=> LexLess(Our, Min)
              /\ pc = "exited" => exit_status # 0
              /\ pc = "returned" <=> ~LexLess(Our, Min)
        /\ (min_version = NULL_TEXT /\ parse_version(build_rpq_version).ok)
              => pc = "returned"

\* C10 as stated: check_min_version does not abort for a build whose major
\* is higher than the required major and whose minor is lower than the
\* required minor.
C10_AcceptsHigherMajorLowerMinor ==
    (pc # "check" /\ BothParse /\ Our[1] > Min[1] /\ Our[2] < Min[2])
        => pc = "returned"

----------------------------------------------------------------------------
(* Startup: main() *)

\* connVars but handler, out and erased.
connRest == <<cstate, old_cstate, stats_ioid, timeouts,
              brcvd, rrcvd, bsent, rsent,
              ns_brcvd, ns_rrcvd, ns_bsent, ns_rsent,
              net_secure, is_secure, lastConn, lastStats, lastSsl>>

\* verVars but pc and exit_status.
verRest == <<text, parsed, build_rpq_version, min_version,
             our_major, our_minor, our_iteration>>

\* What the command line may configure: every toggle off, or tracing or
\* monocase or both on.
StartupToggles ==
    {[ix \in ToggleIx |-> ix \in on] :
        on \in {{}, {TRACING}, {"MONOCASE"}, {TRACING, "MONOCASE"}}}

TraceFiles == {"x3trc.1", "x3trc.2"}

\* What sio_supported(), sio_provider() and sio_options() may return.
SioSetups == {<<"false", NULL, "">>, <<"true", "OpenSSL", "verify-host-cert">>}

\* lazyaf("%d.%d.%d", major, minor, iteration)
lazyaf_version(major, minor, iteration) ==
    <<lazyaf_d(major), ".", lazyaf_d(minor), ".", lazyaf_d(iteration)>>

\* lazyaf("327%c-%d", color? '9': '8', num)
lazyaf_model(color, num) ==
    <<"3", "2", "7", IF color THEN "9" ELSE "8", "-", lazyaf_d(num)>>

\* main(), from its start to the call of check_min_version: usage() exits
\* with status 1 when parse_command_line() leaves a word unrecognized.
main_begin(unrecognized) ==
    /\ pc = "main"
    /\ pc' = IF unrecognized THEN "exited" ELSE "check"
    /\ exit_status' = IF unrecognized THEN 1 ELSE exit_status
    /\ UNCHANGED <<verRest, connVars, actVars, libVars>>

\* Mutant: the hello event is emitted before check_min_version is called.
main_hello_early ==
    /\ pc \in {"check", "returned"}
    /\ out = <<>>
    /\ pc' = IF pc = "returned" THEN "hello" ELSE pc
    /\ handler' = "main"
    /\ out' = Append(out, ui_vleaf("hello",
                << <<"version", lazyaf_version(our_major, our_minor,
                                               our_iteration)>>,
                   <<"build", build_rpq_version>>,
                   <<"copyright", "Copyright">> >>))
    /\ UNCHANGED <<connRest, erased, verRest, exit_status, actVars,
                   libVars>>

\* main(), after check_min_version has returned: ui_io_init() and the hello
\* event.
main_hello ==
    /\ pc = "returned"
    /\ pc' = "hello"
    /\ handler' = "main"
    /\ out' = Append(out, ui_vleaf("hello",
                << <<"version", lazyaf_version(our_major, our_minor,
                                               our_iteration)>>,
                   <<"build", build_rpq_version>>,
                   <<"copyright", "Copyright">> >>))
    /\ UNCHANGED <<connRest, erased, verRest, exit_status, actVars,
                   libVars>>

\* main(): the screen is set up at its maximum size, and the model event is
\* emitted.
main_model ==
    /\ pc = "hello"
    /\ pc' = "model"
    /\ handler' = "main"
    /\ ROWS' = DefaultRows(model_num)
    /\ COLS' = DefaultCols(model_num)
    /\ ea_buf' = ErasedBuf(DefaultRows(model_num), DefaultCols(model_num))
    /\ modified' = {}
    /\ out' = Append(out, ui_vleaf("model",
                << <<"name", lazyaf_model(m3279, model_num)>> >>))
    /\ UNCHANGED <<connRest, erased, verRest, exit_status, libVars>>
    /\ UNCHANGED <<toggle, tracefile_name, argv, ret, output, popups,
                   old_screen, model_num, m3279, ov_rows, ov_cols>>

\* The toggle events of the toggle indices ixs, in order.
RECURSIVE ToggleEvents(_, _, _)
ToggleEvents(ixs, tg, tf) ==
    IF ixs = <<>> THEN <<>>
    ELSE b3270_toggle(Head(ixs), tg, tf) \o ToggleEvents(Tail(ixs), tg, tf)

\* main(): initialize_toggles() calls the callback of every registered
\* toggle, in registration order.
initialize_toggles ==
    /\ pc = "model"
    /\ pc' = "toggles"
    /\ handler' = "main"
    /\ out' = out \o ToggleEvents(toggles, toggle, tracefile_name)
    /\ UNCHANGED <<connRest, erased, verRest, exit_status, actVars,
                   libVars>>

\* main(): the ssl-hello event.
main_ssl_hello(supported, provider, names) ==
    /\ pc = "toggles"
    /\ pc' = "ssl-hello"
    /\ handler' = "main"
    /\ out' = Append(out, ui_vleaf("ssl-hello",
                << <<"supported", supported>>,
                   <<"provider", provider>>,
                   <<"options", names>> >>))
    /\ UNCHANGED <<connRest, erased, verRest, exit_status, actVars,
                   libVars>>

\* main(): the ready event; the event loop runs from here on.
main_ready ==
    /\ pc = "ssl-hello"
    /\ pc' = "ready"
    /\ handler' = "main"
    /\ out' = Append(out, ui_vleaf("ready", <<>>))
    /\ UNCHANGED <<connRest, erased, verRest, exit_status, actVars,
                   libVars>>

InitMain ==
    /\ InitConn
    /\ pc = "main"
    /\ text = <<>>
    /\ parsed = [ok |-> FALSE, major |-> 0, minor |-> 0, iteration |-> 0]
    /\ build_rpq_version \in CheckTexts
    /\ min_version \in CheckTexts \cup {NULL_TEXT}
    /\ our_major = 0 /\ our_minor = 0 /\ our_iteration = 0
    /\ exit_status = -1
    /\ toggle \in StartupToggles
    /\ tracefile_name \in IF toggle[TRACING] THEN TraceFiles ELSE {NULL}
    /\ argv = <<>>
    /\ ret = FALSE
    /\ output = <<>>
    /\ popups = <<>>
    /\ ROWS = DefaultRows(2)
    /\ COLS = DefaultCols(2)
    /\ ea_buf = ErasedBuf(DefaultRows(2), DefaultCols(2))
    /\ modified = {}
    /\ old_screen = [ea_buf |-> ErasedBuf(DefaultRows(2), DefaultCols(2)),
                     modified |-> {}]
    /\ model_num = 2
    /\ m3279 = TRUE
    /\ ov_rows = 0
    /\ ov_cols = 0
    /\ IdleLib

NextMain ==
    \/ \E unrecognized \in BOOLEAN : main_begin(unrecognized)
    \/ check_min_version
    \/ main_hello
    \/ main_model
    \/ initialize_toggles
    \/ \E sio \in SioSetups : main_ssl_hello(sio[1], sio[2], sio[3])
    \/ main_ready

SpecMain == InitMain /\ [][NextMain]_vars

\* The minimum version is given, and it cannot be parsed or the build fails
\* the check against it.
MinVersionFails ==
    /\ min_version # NULL_TEXT
    /\ \/ ~parse_version(min_version).ok
       \/ TooOld(parse_version(build_rpq_version), parse_version(min_version))

\* C11: once main() is past check_min_version with a minimum version that
\* cannot be parsed or that the build fails, the process has exited with
\* status 1 and has emitted no event; and when any event (hello first) has
\* been emitted, check_min_version has returned and the minimum version, if
\* given, was parsed and passed.
C11_NoEventUnlessVersionPasses ==
    /\ (pc \notin {"main", "check"} /\ MinVersionFails) =>
            (pc = "exited" /\ exit_status = 1 /\ out = <<>>)
    /\ (pc \in {"main", "check", "exited"}) => out = <<>>
    /\ out # <<>> =>
            /\ out[1].tag = "hello"
            /\ ~MinVersionFails
            /\ parse_version(build_rpq_version).ok
            /\ exit_status = -1

\* The minimum version cannot be parsed, the build's version can, and the
\* process has exited.
C11_Witness ==
    /\ pc = "exited"
    /\ exit_status = 1
    /\ min_version # NULL_TEXT
    /\ ~parse_version(min_version).ok
    /\ parse_version(build_rpq_version).ok

----------------------------------------------------------------------------
(* Actions: what every action does first and last *)

\* check_argc(name, argc, min, max) < 0
check_argc_fails(args, min, max) == Len(args) < min \/ Len(args) > max

\* atoi(t): the number strtoul reads at the start of t, with its sign.
atoi(t) ==
    LET n == strtoul(t, 1)
    IN  IF n.neg THEN 0 - n.mag ELSE n.mag

\* The text of the number i, -9 <= i <= 9.
NumText(i) ==
    IF i < 0 THEN <<"-", DigitChars[(0 - i) + 1]>> ELSE <<DigitChars[i + 1]>>

----------------------------------------------------------------------------
(* The screen buffer: addresses, fields and double-byte pairs *)

\* a % n of C, which truncates towards zero.
CMod(a, n) == IF a >= 0 THEN a % n ELSE 0 - ((0 - a) % n)

ROWCOL_TO_BA(r, c, cols) == r * cols + c

\* INC_BA(baddr) and DEC_BA(baddr) on a buffer of n cells.
INC_BA(baddr, n) == CMod(baddr + 1, n)

DEC_BA(baddr, n) == IF baddr # 0 THEN baddr - 1 ELSE n - 1

BufLen(buf) == Cardinality(DOMAIN buf)

\* get_field_attribute(baddr): the attribute of the nearest field attribute
\* cell at or before baddr, the search wrapping at the start of the buffer;
\* NO_FA on a screen with no field.
get_field_attribute(buf, baddr) ==
    LET n == BufLen(buf)
        back == {k \in 0 .. (n - 1) : buf[(baddr + n - k) % n].fa # NO_FA}
        near == CHOOSE k \in back : \A j \in back : k <= j
    IN  IF back = {} THEN NO_FA ELSE buf[(baddr + n - near) % n].fa

ctlr_dbcs_state(buf, baddr) == buf[baddr].db

\* ctlr_add(baddr, c, cs): the cell takes the character and character set.
ctlr_add(buf, baddr, c, cs) ==
    [buf EXCEPT ![baddr] = [@ EXCEPT !.cc = c, !.cs = cs]]

\* mdt_set(baddr): the cell is marked modified.
mdt_set(mod, baddr) == mod \cup {baddr}

\* The kinds of thing the host writes: a field attribute, a character, SO,
\* and a double-byte pair (its left half here, its right half in the next
\* cell); in the example screens also a single-byte character of a
\* double-byte field, and SI.
ItemKinds == {"fa_unprotected", "fa_protected", "char", "so", "dbcs"}

KindCell(k) ==
    CASE k = "fa_unprotected" ->
            [cc |-> EBC_null, cs |-> 0, fa |-> "unprotected", db |-> DBCS_NONE]
      [] k = "fa_protected" ->
            [cc |-> EBC_null, cs |-> 0, fa |-> "protected", db |-> DBCS_NONE]
      [] k = "char" -> [cc |-> 193, cs |-> 0, fa |-> NO_FA, db |-> DBCS_NONE]
      [] k = "char_sb" -> [cc |-> 194, cs |-> 0, fa |-> NO_FA, db |-> DBCS_SB]
      [] k = "so" -> [cc |-> EBC_so, cs |-> 0, fa |-> NO_FA, db |-> DBCS_NONE]
      [] k = "si" -> [cc |-> EBC_si, cs |-> 0, fa |-> NO_FA, db |-> DBCS_NONE]
      [] k = "dbcs" -> [cc |-> 66, cs |-> 1, fa |-> NO_FA, db |-> DBCS_LEFT]
      [] k = "dbcs_right" ->
            [cc |-> 193, cs |-> 1, fa |-> NO_FA, db |-> DBCS_RIGHT]

\* The cells an item of kind k at address a takes.
ItemCells(a, k, n) == IF k = "dbcs" THEN {a, INC_BA(a, n)} ELSE {a}

\* The buffer after the host wrote the item <<a, k>>.
WriteItem(buf, item) ==
    LET a == item[1]
        k == item[2]
    IN  IF k = "dbcs"
        THEN [buf EXCEPT ![a] = KindCell("dbcs"),
                         ![INC_BA(a, BufLen(buf))] = KindCell("dbcs_right")]
        ELSE [buf EXCEPT ![a] = KindCell(k)]

RECURSIVE WriteItems(_, _)
WriteItems(buf, items) ==
    IF items = <<>> THEN buf
    ELSE WriteItems(WriteItem(buf, Head(items)), Tail(items))

\* No two items of the sequence take the same cell.
Disjoint(items, n) ==
    \A i \in 1 .. Len(items) : \A j \in 1 .. Len(items) :
        i < j => ItemCells(items[i][1], items[i][2], n)
                    \cap ItemCells(items[j][1], items[j][2], n) = {}

\* Screens of four cells and more: a protected field with a character and
\* an unprotected one; a double-byte pair in an unprotected field; a
\* double-byte pair in a protected field, then SO.
ExampleScreens ==
    { << <<0, "fa_protected">>, <<1, "char">>,
         <<2, "fa_unprotected">>, <<3, "char">> >>,
      << <<0, "fa_unprotected">>, <<1, "dbcs">>, <<3, "char_sb">> >>,
      << <<0, "fa_protected">>, <<1, "dbcs">>, <<3, "so">> >>,
      << <<0, "si">>, <<1, "dbcs">>, <<3, "fa_unprotected">> >> }

\* The screens of rows x cols cells the host may have written.
Screens(rows, cols) ==
    LET n == rows * cols
        Items == (0 .. (n - 1)) \X ItemKinds
        Lists == UNION {[1 .. k -> Items] : k \in 0 .. MaxItems}
                    \cup ExampleScreens
    IN  {WriteItems(ErasedBuf(rows, cols), l) :
            l \in {x \in Lists : Disjoint(x, n)}}

----------------------------------------------------------------------------
(* ClearRegion *)

\* Mutant: only zero rows make the rectangle empty.
ZeroSized_rows(rows, columns) == rows = 0

\* if (rows == 0 || columns == 0) return true;
ZeroSized(rows, columns) == rows = 0 \/ columns = 0

\* The first check: the top-left corner is outside the buffer.
InvalidCoordinates(row, column, nrows, ncols) ==
    row <= 0 \/ row > nrows \/ column <= 0 \/ column > ncols

\* The second check: the size is negative or the rectangle goes past the
\* last row or column.
InvalidSize(row, column, rows, columns, nrows, ncols) ==
    \/ rows < 0
    \/ columns < 0
    \/ row - 1 + rows > nrows
    \/ column - 1 + columns > ncols

\* Mutant: the action returns false once it has reported an error.
StopsAt_error(errs) == errs # <<>>

\* No return follows either popup_an_error call: the action goes on, whatever
\* the checks reported.
StopsAt(errs) == FALSE

\* The buffer addresses the two loops of ClearRegion compute, in order.
RegionAddrs(row, column, rows, columns, ncols) ==
    IF rows <= 0 \/ columns <= 0 THEN <<>>
    ELSE [i \in 1 .. (rows * columns) |->
            ROWCOL_TO_BA(row - 1 + ((i - 1) \div columns),
                         column - 1 + ((i - 1) % columns), ncols)]

\* Mutant: only field attribute cells are skipped.
SkipCell_fa(buf, baddr) == buf[baddr].fa # NO_FA

\* The cells the loop passes over: field attributes, the cells of a
\* protected field, SO and SI.
SkipCell(buf, baddr) ==
    \/ buf[baddr].fa # NO_FA
    \/ FA_IS_PROTECTED(get_field_attribute(buf, baddr))
    \/ buf[baddr].cc = EBC_so
    \/ buf[baddr].cc = EBC_si

\* Mutant: the other half of a double-byte pair is left alone.
ClearChar_single(buf, baddr) ==
    ctlr_add(buf, baddr, EBC_space, buf[baddr].cs)

\* switch (ctlr_dbcs_state(baddr)): the cell, and the other half of its
\* double-byte pair, take a space in the cell's character set.
ClearChar(buf, baddr) ==
    LET db == ctlr_dbcs_state(buf, baddr)
        n  == BufLen(buf)
    IN  CASE db \in {DBCS_NONE, DBCS_SB} ->
                ctlr_add(buf, baddr, EBC_space, buf[baddr].cs)
          [] db = DBCS_LEFT ->
                LET b1 == ctlr_add(buf, baddr, EBC_space, buf[baddr].cs)
                IN  ctlr_add(b1, INC_BA(baddr, n), EBC_space, b1[baddr].cs)
          [] db = DBCS_RIGHT ->
                LET b1 == ctlr_add(buf, DEC_BA(baddr, n), EBC_space,
                                   buf[baddr].cs)
                IN  ctlr_add(b1, baddr, EBC_space, b1[baddr].cs)
          [] OTHER -> buf

\* What a cell outside the buffer may read as: a cell to pass over or a
\* single character (nothing inside the buffer is written), or the left or
\* the right half of a double-byte pair in some character set.
NoGarbage == [kind |-> "skip", cs |-> 0]

Garbage == {NoGarbage} \cup [kind : {"left", "right"}, cs : {0, 1}]

\* One pass of the inner loop, on the screen st = [buf, mod]. At an address
\* outside the buffer the cell read is g, and only a write to the other half
\* of its pair can land inside the buffer.
ClearCell(st, baddr, g) ==
    LET buf == st.buf
        n   == BufLen(buf)
    IN  IF baddr \in DOMAIN buf
        THEN IF SkipCell(buf, baddr) THEN st
             ELSE [buf |-> ClearChar(buf, baddr),
                   mod |-> mdt_set(st.mod, baddr)]
        ELSE LET ba2 == IF g.kind = "left" THEN INC_BA(baddr, n)
                        ELSE DEC_BA(baddr, n)
             IN  IF g.kind # "skip" /\ ba2 \in DOMAIN buf
                 THEN [st EXCEPT !.buf = ctlr_add(buf, ba2, EBC_space, g.cs)]
                 ELSE st

RECURSIVE ClearCells(_, _, _)
ClearCells(st, addrs, g) ==
    IF addrs = <<>> THEN st
    ELSE ClearCells(ClearCell(st, Head(addrs), g), Tail(addrs), g)

\* ClearRegion(row, column, rows, columns). A call that reads outside the
\* buffer either ends the process or goes on with what it read there.
ClearRegion_action(args) ==
    /\ handler' = "ClearRegion"
    /\ argv' = args
    /\ out' = <<>>
    /\ erased' = 0
    /\ output' = <<>>
    /\ old_screen' = [ea_buf |-> ea_buf, modified |-> modified]
    /\ IF check_argc_fails(args, 4, 4)
       THEN /\ ret' = FALSE
            /\ popups' = <<"ClearRegion: wrong number of arguments">>
            /\ UNCHANGED <<ea_buf, modified, pc>>
       ELSE LET row     == atoi(args[1])
                column  == atoi(args[2])
                rows    == atoi(args[3])
                columns == atoi(args[4])
                e1 == IF InvalidCoordinates(row, column, ROWS, COLS)
                      THEN <<"ClearRegion: invalid coordinates">> ELSE <<>>
                e2 == IF InvalidSize(row, column, rows, columns, ROWS, COLS)
                      THEN <<"ClearRegion: invalid size">> ELSE <<>>
                addrs == IF ZeroSized(rows, columns) THEN <<>>
                         ELSE RegionAddrs(row, column, rows, columns, COLS)
                outside == \E i \in 1 .. Len(addrs) :
                                addrs[i] \notin DOMAIN ea_buf
            IN  /\ popups' = e1 \o e2
                /\ \/ /\ StopsAt(e1 \o e2)
                      /\ ret' = FALSE
                      /\ UNCHANGED <<ea_buf, modified, pc>>
                   \/ /\ ~StopsAt(e1 \o e2)
                      /\ \E g \in (IF outside THEN Garbage
                                             ELSE {NoGarbage}) :
                          LET st == ClearCells([buf |-> ea_buf,
                                                mod |-> modified], addrs, g)
                          IN  /\ ea_buf' = st.buf
                              /\ modified' = st.mod
                              /\ ret' = TRUE
                              /\ UNCHANGED pc
                   \/ /\ ~StopsAt(e1 \o e2)
                      /\ outside
                      /\ pc' = "crashed"
                      /\ ret' = FALSE
                      /\ UNCHANGED <<ea_buf, modified>>
    /\ UNCHANGED <<connRest, verRest, exit_status, libVars>>
    /\ UNCHANGED <<toggle, tracefile_name, ROWS, COLS,
                   model_num, m3279, ov_rows, ov_cols>>

\* The argument lists ClearRegion is called with: a row and a column from
\* the text "x" (atoi reads 0) to one past the last, a number of rows and of
\* columns from -1 up to all of them; and a call with three arguments.
ClearArgs ==
    ( ({<<"x">>} \cup {NumText(i) : i \in 1 .. (ROWS + 1)})
      \X ({<<"x">>} \cup {NumText(i) : i \in 1 .. (COLS + 1)})
      \X {NumText(i) : i \in (0 - 1) .. ROWS}
      \X {NumText(i) : i \in (0 - 1) .. COLS} )
    \cup {<<NumText(1), NumText(1), NumText(1)>>}

InitClear ==
    /\ InitConn
    /\ IdleVer
    /\ toggle = [ix \in ToggleIx |-> FALSE]
    /\ tracefile_name = NULL
    /\ argv = <<>>
    /\ ret = FALSE
    /\ output = <<>>
    /\ popups = <<>>
    /\ ROWS = DefaultRows(2)
    /\ COLS = DefaultCols(2)
    /\ ea_buf \in Screens(DefaultRows(2), DefaultCols(2))
    /\ modified = {}
    /\ old_screen = [ea_buf |-> ea_buf, modified |-> {}]
    /\ model_num = 2
    /\ m3279 = TRUE
    /\ ov_rows = 0
    /\ ov_cols = 0
    /\ IdleLib

\* One ClearRegion call on every screen.
NextClear == handler = "none" /\ \E args \in ClearArgs : ClearRegion_action(args)

SpecClear == InitClear /\ [][NextClear]_vars

----------------------------------------------------------------------------
(* ClearRegion: claims *)

\* ClearRegion has run with four arguments and has returned.
ClearRegionCalled ==
    handler = "ClearRegion" /\ Len(argv) = 4 /\ pc # "crashed"

ArgRow == atoi(argv[1])

ArgColumn == atoi(argv[2])

ArgRows == atoi(argv[3])

ArgColumns == atoi(argv[4])

Addrs == DOMAIN ea_buf

\* The buffer addresses of the cells of the rectangle.
InRect ==
    {a \in Addrs :
        /\ ArgRow - 1 <= a \div COLS
        /\ a \div COLS < ArgRow - 1 + ArgRows
        /\ ArgColumn - 1 <= a % COLS
        /\ a % COLS < ArgColumn - 1 + ArgColumns}

\* Both argument checks passed: no error was reported.
ValidRegion == ClearRegionCalled /\ popups = <<>>

\* The cell at a was, before the call, a field attribute, a cell of a
\* protected field, SO or SI.
WasSkipped(a) ==
    \/ old_screen.ea_buf[a].fa # NO_FA
    \/ get_field_attribute(old_screen.ea_buf, a) = "protected"
    \/ old_screen.ea_buf[a].cc \in {EBC_so, EBC_si}

\* The address of the other half of the double-byte pair the cell at a was
\* a half of.
Partner(a) ==
    IF old_screen.ea_buf[a].db = DBCS_LEFT
    THEN (a + 1) % Cardinality(Addrs)
    ELSE (a + Cardinality(Addrs) - 1) % Cardinality(Addrs)

\* C12: a ClearRegion call with zero rows or zero columns returns success and
\* leaves every cell of the buffer and every modified mark as it was,
\* whatever its row and column are.
C12_ZeroSizedIsNoOp ==
    (ClearRegionCalled /\ (ArgRows = 0 \/ ArgColumns = 0)) =>
        /\ ret = TRUE
        /\ ea_buf = old_screen.ea_buf
        /\ modified = old_screen.modified

\* A call with zero columns and two rows, on a screen with an unprotected
\* character in the first column, at a row outside the buffer.
C12_Witness ==
    /\ ClearRegionCalled
    /\ ArgColumns = 0
    /\ ArgRows = 2
    /\ ArgRow > ROWS
    /\ ret = TRUE
    /\ \E a \in Addrs : /\ a % COLS = 0
                        /\ old_screen.ea_buf[a].cc = 193
                        /\ ~WasSkipped(a)

\* C13: ClearRegion returns failure whenever its top-left corner is outside
\* the buffer, its size is negative or the rectangle goes past the last row
\* or column.
C13_InvalidRegionFails ==
    (ClearRegionCalled
        /\ \/ InvalidCoordinates(ArgRow, ArgColumn, ROWS, COLS)
           \/ InvalidSize(ArgRow, ArgColumn, ArgRows, ArgColumns, ROWS, COLS))
    => ret = FALSE

\* C14: after a ClearRegion call that reported no error, every cell of the
\* rectangle that was an unprotected character cell and a half of a
\* double-byte pair holds a space, and so does the other half of the pair, in
\* the same character set, also when that half is outside the rectangle.
C14_PairsClearedWhole ==
    (ValidRegion /\ ret = TRUE) =>
        \A a \in InRect :
            (~WasSkipped(a)
                /\ old_screen.ea_buf[a].db \in {DBCS_LEFT, DBCS_RIGHT}) =>
                /\ ea_buf[a].cc = EBC_space
                /\ ea_buf[Partner(a)].cc = EBC_space
                /\ ea_buf[a].cs = ea_buf[Partner(a)].cs
                /\ ea_buf[a].cs = old_screen.ea_buf[a].cs

\* The left half of a pair is in the rectangle and the right half is not,
\* and both were cleared.
C14_Witness ==
    /\ ValidRegion
    /\ \E a \in InRect :
        /\ ~WasSkipped(a)
        /\ old_screen.ea_buf[a].db = DBCS_LEFT
        /\ Partner(a) \notin InRect
        /\ old_screen.ea_buf[Partner(a)].cc # EBC_space
        /\ ea_buf[Partner(a)].cc = EBC_space
        /\ ea_buf[a].cc = EBC_space

\* C15: a ClearRegion call that reported no error leaves every cell of the
\* rectangle that was a field attribute, a cell of a protected field, SO or
\* SI as it was (character, character set, attribute, double-byte role) and
\* does not mark it modified.
C15_SkippedCellsUntouched ==
    ValidRegion =>
        \A a \in InRect :
            WasSkipped(a) =>
                /\ ea_buf[a] = old_screen.ea_buf[a]
                /\ (a \in modified) = (a \in old_screen.modified)

\* The rectangle holds a character of a protected field, which was kept,
\* and a cell that was cleared.
C15_Witness ==
    /\ ValidRegion
    /\ \E a \in InRect :
        /\ old_screen.ea_buf[a].fa = NO_FA
        /\ old_screen.ea_buf[a].cc = 193
        /\ get_field_attribute(old_screen.ea_buf, a) = "protected"
        /\ ea_buf[a].cc = 193
    /\ \E b \in InRect : ea_buf[b] # old_screen.ea_buf[b]

\* C16: by the end of a ClearRegion call that reported no error, every cell
\* it replaced with a space, the other half of a double-byte pair included,
\* is marked modified.
C16_ClearedCellsMarked ==
    ValidRegion =>
        \A a \in Addrs :
            ea_buf[a] # old_screen.ea_buf[a] => a \in modified

----------------------------------------------------------------------------
(* Model *)

\* PCONNECTED: a connection is active, pending or half-connected included.
PCONNECTED(s) == s # NOT_CONNECTED

\* Mutant: the oversize is printed also when there is none.
ModelDescriptor_oversize(color, num, ovr, ovc) ==
    lazyaf_model(color, num) \o <<",", lazyaf_d(ovr), "x", lazyaf_d(ovc)>>

\* What Model() outputs: "327%c-%d", and ",%dx%d" when there is an oversize.
ModelDescriptor(color, num, ovr, ovc) ==
    IF ovr # 0 \/ ovc # 0
    THEN lazyaf_model(color, num) \o <<",", lazyaf_d(ovr), "x", lazyaf_d(ovc)>>
    ELSE lazyaf_model(color, num)

\* Mutant: the connection is not tested.
ModelRefused_never(argc, s) == FALSE

\* The test of PCONNECTED comes after the branch of argc == 0: only a call
\* with arguments is refused while connected.
ModelRefused(argc, s) == argc # 0 /\ PCONNECTED(s)

\* The test of argv[0]: six characters, "327", '8' or '9', '-', and one of
\* "2345".
ModelNameOk(t) ==
    /\ Len(t) = 6
    /\ SubSeq(t, 1, 3) = <<"3", "2", "7">>
    /\ t[4] \in {"8", "9"}
    /\ t[5] = "-"
    /\ t[6] \in {"2", "3", "4", "5"}

\* An unsigned that strtoul read, converted to int.
AsInt(n) == IF n.neg THEN 0 - n.mag ELSE n.mag

\* sscanf(t, "%u%c%u%c", &ovr, &x, &ovc, &junk): the number of conversions
\* made, and ovr, x and ovc, which keep their initial values (0, and an
\* uninitialized x shown as NUL) when their conversion is not reached.
sscanf_oversize(t) ==
    LET n1 == strtoul(t, 1)
        p2 == n1.ptr + 1
        n2 == strtoul(t, p2)
        none == [count |-> 0, ovr |-> 0, x |-> NUL, ovc |-> 0]
    IN  IF n1.ptr = 1 THEN none
        ELSE IF CharAt(t, n1.ptr) = NUL
             THEN [none EXCEPT !.count = 1, !.ovr = AsInt(n1)]
        ELSE IF n2.ptr = p2
             THEN [none EXCEPT !.count = 2, !.ovr = AsInt(n1),
                               !.x = CharAt(t, n1.ptr)]
        ELSE [count |-> IF CharAt(t, n2.ptr) = NUL THEN 3 ELSE 4,
              ovr |-> AsInt(n1), x |-> CharAt(t, n1.ptr), ovc |-> AsInt(n2)]

\* set_rows_cols(mn, ovc, ovr): the oversize is taken when it is no smaller
\* than the model's default geometry, and dropped otherwise.
OversizeTaken(mn, ovc, ovr) ==
    ovc >= DefaultCols(mn) /\ ovr >= DefaultRows(mn)

set_rows_cols(mn, ovc, ovr) ==
    IF OversizeTaken(mn, ovc, ovr)
    THEN [model_num |-> mn, ov_rows |-> ovr, ov_cols |-> ovc,
          maxROWS |-> ovr, maxCOLS |-> ovc]
    ELSE [model_num |-> mn, ov_rows |-> 0, ov_cols |-> 0,
          maxROWS |-> DefaultRows(mn), maxCOLS |-> DefaultCols(mn)]

\* Model(), Model(name) and Model(name, oversize).
Model_action(args) ==
    /\ handler' = "Model"
    /\ argv' = args
    /\ out' = <<>>
    /\ LET argc == Len(args)
           sc   == IF argc > 1 THEN sscanf_oversize(args[2])
                   ELSE [count |-> 3, ovr |-> 0, x |-> "x", ovc |-> 0]
           unchanged ==
                /\ erased' = 0
                /\ UNCHANGED <<model_num, m3279, ov_rows, ov_cols,
                               ROWS, COLS, ea_buf, modified>>
       IN  IF check_argc_fails(args, 0, 2)
           THEN /\ ret' = FALSE
                /\ output' = <<>>
                /\ popups' = <<"Model: wrong number of arguments">>
                /\ unchanged
           ELSE IF argc = 0
           THEN /\ ret' = TRUE
                /\ output' = <<ModelDescriptor(m3279, model_num,
                                               ov_rows, ov_cols)>>
                /\ popups' = <<>>
                /\ unchanged
           ELSE IF ModelRefused(argc, cstate)
           THEN /\ ret' = FALSE
                /\ output' = <<>>
                /\ popups' = <<"Model: Cannot change model while connected">>
                /\ unchanged
           ELSE IF ~ModelNameOk(args[1])
           THEN /\ ret' = FALSE
                /\ output' = <<>>
                /\ popups' =
                    <<"Model: First parameter must be 327[89]-[2345]">>
                /\ unchanged
           ELSE IF argc > 1 /\ (sc.count # 3 \/ sc.x # "x")
           THEN /\ ret' = FALSE
                /\ output' = <<>>
                /\ popups' =
                    <<"Mode: Second parameter must be <rows>x<cols>">>
                /\ unchanged
           ELSE LET model_number == DigitValue(args[1][6])
                    g == set_rows_cols(model_number, sc.ovc, sc.ovr)
                IN  /\ model_num' = g.model_num
                    /\ ov_rows' = g.ov_rows
                    /\ ov_cols' = g.ov_cols
                    /\ ROWS' = g.maxROWS
                    /\ COLS' = g.maxCOLS
                    /\ m3279' = (args[1][4] = "9")
                    /\ ea_buf' = ErasedBuf(g.maxROWS, g.maxCOLS)
                    /\ modified' = {}
                    /\ erased' = 1
                    /\ output' = <<>>
                    /\ popups' = <<>>
                    /\ ret' = (/\ g.model_num = model_number
                               /\ g.ov_rows = sc.ovr
                               /\ g.ov_cols = sc.ovc)
    /\ UNCHANGED <<connRest, verVars, libVars, toggle, tracefile_name,
                   old_screen>>

\* The host writes a character at the start of the screen, which no field
\* protects.
host_write ==
    /\ cstate # NOT_CONNECTED
    /\ ea_buf[0] = ErasedCell
    /\ ea_buf' = [ea_buf EXCEPT ![0] = KindCell("char")]
    /\ handler' = "none"
    /\ out' = <<>>
    /\ erased' = 0
    /\ UNCHANGED <<connRest, verVars, libVars, toggle, tracefile_name, argv,
                   ret,
                   output, popups, ROWS, COLS, modified, old_screen,
                   model_num, m3279, ov_rows, ov_cols>>

\* The model names Model is called with: the eight models, and names that
\* are none.
ModelNames ==
    {<<"3", "2", "7", c, "-", d>> : c \in {"8", "9"},
                                    d \in {"2", "3", "4", "5"}}
    \cup { <<"3", "2", "7", "9", "-", "6">>,
           <<"3", "2", "7", "7", "-", "2">>,
           <<"3", "2", "7", "9", "-">>,
           <<"3", "2", "7", "9", "-", "2", "2">>,
           <<>> }

\* The oversizes Model is called with: rows x columns, and texts that are
\* none.
Oversizes ==
    {NumText(r) \o <<"x">> \o NumText(c) :
        r \in {1, 3}, c \in {1, BufCols + 1}}
    \cup { <<"3">>, <<"3", "x">>, <<"3", "y", "3">>,
           <<"3", "x", "3", "z">>, <<"-", "3", "x", "3">>,
           <<" ", "3", "x", " ", "3">> }

ModelArgs ==
    {<<>>}
    \cup {<<name>> : name \in ModelNames}
    \cup {<<name, o>> : name \in {<<"3", "2", "7", "9", "-", d>> :
                                    d \in {"2", "6"}},
                        o \in Oversizes}
    \cup {<<<<"3", "2", "7", "9", "-", "2">>, <<"3", "x", "3">>, <<>>>>}

\* The states the engine is seen in here: not connected, waiting for the SSL
\* password, and connected in 3270 mode.
ModelCStates == {NOT_CONNECTED, 1, 8}

NextModel ==
    \/ \E args \in ModelArgs : Model_action(args)
    \/ \E s \in ModelCStates : b3270_connect(s)
    \/ host_write

SpecModel == Init /\ [][NextModel]_vars

----------------------------------------------------------------------------
(* Model: claims *)

\* C17: when Model(m), called with the one argument m while not connected,
\* has returned success, a Model() call that follows it returns success and
\* outputs exactly m, with no oversize.
C17_ModelReportsWhatWasSet ==
    [][(/\ handler = "Model"
        /\ Len(argv) = 1
        /\ ret = TRUE
        /\ handler' = "Model"
        /\ argv' = <<>>)
        => (ret' = TRUE /\ output' = <<argv[1]>>)]_vars

\* Model() has output "3278-4": the model at startup is 3279-2, so
\* Model("3278-4") has succeeded before.
C17_Witness ==
    /\ handler = "Model"
    /\ argv = <<>>
    /\ ret = TRUE
    /\ output = << <<"3", "2", "7", "8", "-", "4">> >>

\* C18: Model called with one or two arguments while a connection is active
\* returns failure and leaves the model number, the colour mode, the
\* oversize, ROWS, COLS and the buffer as they were; Model called with no
\* argument succeeds also then.
C18_NoModelChangeWhileConnected ==
    [][(handler' = "Model" /\ cstate # NOT_CONNECTED) =>
        /\ Len(argv') \in {1, 2} =>
                /\ ret' = FALSE
                /\ UNCHANGED <<model_num, m3279, ov_rows, ov_cols,
                               ROWS, COLS, ea_buf, modified>>
        /\ Len(argv') = 0 =>
                (ret' = TRUE /\ Len(output') = 1)]_vars

\* While connected, with a character on the screen, a Model call that names
\* another model than the current one has failed.
C18_Witness ==
    /\ handler = "Model"
    /\ cstate # NOT_CONNECTED
    /\ Len(argv) = 1
    /\ ModelNameOk(argv[1])
    /\ argv[1] # ModelDescriptor(m3279, model_num, 0, 0)
    /\ ret = FALSE
    /\ ea_buf[0] = KindCell("char")

----------------------------------------------------------------------------
(* Trace *)

\* The name of the file tracing opens when no file was named.
DefaultTraceFile == "x3trc.0"

toggled(tg, ix) == tg[ix]

\* do_toggle(ix): the toggle flips and its callbacks run. The trace module
\* starts tracing to the file named by trace_set_trace_file() (pending), or
\* to its default file, and keeps the name when tracing stops; b3270_toggle
\* emits the toggle event.
do_toggle(ix, tg, tf, pending) ==
    LET tg1 == [tg EXCEPT ![ix] = ~@]
        tf1 == IF ix = TRACING /\ tg1[ix]
               THEN (IF pending # NULL THEN pending ELSE DefaultTraceFile)
               ELSE tf
    IN  [toggle |-> tg1, tracefile_name |-> tf1,
         out |-> b3270_toggle(ix, tg1, tf1)]

\* tolower(c), for the letters of "On" and "Off".
tolower(c) ==
    CASE c = "O" -> "o"
      [] c = "N" -> "n"
      [] c = "F" -> "f"
      [] OTHER -> c

\* strcasecmp(a, b) == 0
strcasecmp_eq(a, b) ==
    /\ Len(a) = Len(b)
    /\ \A i \in 1 .. Len(a) : tolower(a[i]) = tolower(b[i])

\* Mutant: the toggle is flipped whatever it is.
NeedsToggle_always(want, tg) == TRUE

\* if (toggled(TRACING)) for "Off" and if (!toggled(TRACING)) for "On": the
\* toggle is flipped only when it is not what the command wants.
NeedsToggle(want, tg) == toggled(tg, TRACING) # want

\* Mutant: a file name is accepted also while tracing is on.
FileRefused_never(argc, tg) == FALSE

\* "On" with a file name while tracing is on.
FileRefused(argc, tg) == argc > 1 /\ toggled(tg, TRACING)

\* Trace(), Trace(On), Trace(On, file) and Trace(Off).
Trace_action(args) ==
    /\ handler' = "Trace"
    /\ argv' = args
    /\ erased' = 0
    /\ LET argc == Len(args)
           fail(msg) ==
                /\ ret' = FALSE
                /\ output' = <<>>
                /\ popups' = <<msg>>
                /\ out' = <<>>
                /\ UNCHANGED <<toggle, tracefile_name>>
           noop ==
                /\ ret' = TRUE
                /\ output' = <<>>
                /\ popups' = <<>>
                /\ out' = <<>>
                /\ UNCHANGED <<toggle, tracefile_name>>
           flip(word, pending) ==
                LET t == do_toggle(TRACING, toggle, tracefile_name, pending)
                IN  /\ toggle' = t.toggle
                    /\ tracefile_name' = t.tracefile_name
                    /\ out' = t.out
                    /\ output' = << <<word, t.tracefile_name>> >>
                    /\ popups' = <<>>
                    /\ ret' = TRUE
       IN  IF check_argc_fails(args, 0, 2)
           THEN fail("Trace: wrong number of arguments")
           ELSE IF argc = 0
           THEN /\ ret' = TRUE
                /\ output' = IF toggled(toggle, TRACING)
                                /\ tracefile_name # NULL
                             THEN << <<"On", tracefile_name>> >>
                             ELSE << <<"Off">> >>
                /\ popups' = <<>>
                /\ out' = <<>>
                /\ UNCHANGED <<toggle, tracefile_name>>
           ELSE IF strcasecmp_eq(args[1], <<"O", "f", "f">>)
           THEN IF argc > 1
                THEN fail("Trace: Too many arguments for 'Off'")
                ELSE IF NeedsToggle(FALSE, toggle)
                     THEN flip("Off", NULL)
                     ELSE noop
           ELSE IF ~strcasecmp_eq(args[1], <<"O", "n">>)
           THEN fail("Trace: Parameter must be On or Off")
           ELSE IF FileRefused(argc, toggle)
           THEN fail("Trace: cannot specify filename when tracing is already on")
           ELSE IF NeedsToggle(TRUE, toggle)
                THEN flip("On", IF argc > 1 THEN args[2] ELSE NULL)
                ELSE noop
    /\ UNCHANGED <<connRest, verVars, libVars, ROWS, COLS, ea_buf, modified,
                   old_screen, model_num, m3279, ov_rows, ov_cols>>

\* The toggle registry sets the toggle ix to the value it does not have.
toggle_set(ix) ==
    /\ LET t == do_toggle(ix, toggle, tracefile_name, NULL)
       IN  /\ toggle' = t.toggle
           /\ tracefile_name' = t.tracefile_name
           /\ out' = t.out
    /\ handler' = "toggle"
    /\ erased' = 0
    /\ UNCHANGED <<connRest, verVars, libVars, argv, ret, output, popups,
                   ROWS, COLS, ea_buf, modified, old_screen,
                   model_num, m3279, ov_rows, ov_cols>>

On == <<"O", "n">>

Off == <<"O", "f", "f">>

\* The argument lists Trace is called with.
TraceArgs ==
    { <<>>, <<On>>, <<Off>>, <<<<"o", "n">>>>, <<<<"O", "F", "F">>>>,
      <<<<"b", "a", "d">>>>, <<Off, "x3trc.1">>, <<On, "x3trc.1", "x3trc.2">> }
    \cup {<<On, f>> : f \in TraceFiles}

NextTrace ==
    \/ \E args \in TraceArgs : Trace_action(args)
    \/ \E ix \in ToggleIx : toggle_set(ix)

SpecTrace == Init /\ [][NextTrace]_vars

----------------------------------------------------------------------------
(* Trace: claims *)

\* The Trace command asks for the state tracing is in: On with no file name
\* while tracing is on, or Off while it is off.
AsksForCurrentState(args, tg) ==
    /\ Len(args) = 1
    /\ \/ strcasecmp_eq(args[1], On) /\ tg[TRACING]
       \/ strcasecmp_eq(args[1], Off) /\ ~tg[TRACING]

\* C19: Trace(On) with no file name while tracing is on, and Trace(Off) while
\* it is off, return success, leave the toggle and the trace file name as
\* they were, emit no toggle event and output nothing; and a Trace command
\* run a second time with the same arguments leaves the state its first run
\* left.
C19_TraceIdempotent ==
    [][handler' = "Trace" =>
        /\ AsksForCurrentState(argv', toggle) =>
                /\ ret' = TRUE
                /\ UNCHANGED <<toggle, tracefile_name>>
                /\ out' = <<>>
                /\ output' = <<>>
        /\ (handler = "Trace" /\ argv' = argv) =>
                UNCHANGED <<toggle, tracefile_name>>]_vars

\* Trace(On) has run while tracing was on: it returned success, and tracing
\* is on though the call emitted no toggle event.
C19_Witness ==
    /\ handler = "Trace"
    /\ argv = <<On>>
    /\ ret = TRUE
    /\ toggle[TRACING]
    /\ out = <<>>
    /\ output = <<>>

\* C20: Trace(On, file) while tracing is on returns failure and leaves the
\* toggle on and the trace file name as it was; while tracing is off it sets
\* the trace file, turns tracing on and returns success.
C20_TraceOnWithFile ==
    [][(handler' = "Trace" /\ Len(argv') = 2
            /\ strcasecmp_eq(argv'[1], On)) =>
        IF toggle[TRACING]
        THEN /\ ret' = FALSE
             /\ toggle'[TRACING]
             /\ UNCHANGED <<toggle, tracefile_name>>
        ELSE /\ ret' = TRUE
             /\ toggle'[TRACING]
             /\ tracefile_name' = argv'[2]]_vars

\* Trace(On, file) has failed: tracing is on, to another file than the one
\* the call named.
C20_Witness ==
    /\ handler = "Trace"
    /\ Len(argv) = 2
    /\ strcasecmp_eq(argv[1], On)
    /\ ret = FALSE
    /\ toggle[TRACING]
    /\ tracefile_name \in TraceFiles
    /\ tracefile_name # argv[2]

----------------------------------------------------------------------------
(* The toggle event: claims *)

\* The values an event gives for the attribute key: none when the attribute
\* is omitted.
AttrValues(e, key) ==
    {e.attrs[i][2] : i \in {j \in 1 .. Len(e.attrs) : e.attrs[j][1] = key}}

\* The toggle events the last handler emitted.
ToggleEventsOut ==
    {out[i] : i \in {j \in 1 .. Len(out) : out[j].tag = "toggle"}}

\* The toggle index a display name stands for.
IndexOfName(name) == CHOOSE ix \in ToggleIx : toggle_names[ix] = name

\* C22: every toggle event carries the display name of a toggle and that
\* toggle's current value, as "true" or "false"; it carries the file
\* attribute, with the trace file name, exactly when the toggle is the
\* tracing toggle, tracing is on and a trace file name is set, and for every
\* other toggle and for tracing turned off the attribute is omitted.
C22_ToggleEventFile ==
    \A e \in ToggleEventsOut :
        /\ \E ix \in ToggleIx : AttrValues(e, "name") = {toggle_names[ix]}
        /\ LET ix == IndexOfName(e.attrs[1][2])
           IN  /\ AttrValues(e, "value")
                    = {IF toggle[ix] THEN "true" ELSE "false"}
               /\ AttrValues(e, "file")
                    = IF ix = TRACING /\ toggle[ix] /\ tracefile_name # NULL
                      THEN {tracefile_name}
                      ELSE {}

\* Tracing has been turned off while a trace file name is set: the toggle
\* event has the name and the value and no file attribute.
C22_Witness ==
    /\ tracefile_name # NULL
    /\ ~toggle[TRACING]
    /\ \E e \in ToggleEventsOut :
        /\ AttrValues(e, "name") = {"trace"}
        /\ AttrValues(e, "value") = {"false"}
        /\ AttrValues(e, "file") = {}

----------------------------------------------------------------------------
(* ClearRegion: errors, indexes and frame *)

\* C23: whenever ClearRegion has reported an error, for invalid coordinates,
\* for an invalid size or for a wrong number of arguments, every buffer cell
\* and every modified mark is as it was before the call.
C23_ErrorLeavesBuffer ==
    (handler = "ClearRegion" /\ popups # <<>>) =>
        /\ ea_buf = old_screen.ea_buf
        /\ modified = old_screen.modified

\* The buffer addresses the loops of the last ClearRegion call computed: none
\* if the call returned before its loops.
LoopAddrs ==
    IF StopsAt(popups) \/ ZeroSized(ArgRows, ArgColumns) THEN {}
    ELSE LET s == RegionAddrs(ArgRow, ArgColumn, ArgRows, ArgColumns, COLS)
         IN  {s[i] : i \in 1 .. Len(s)}

\* The buffer indexes the last ClearRegion call read or wrote: the addresses
\* of its loops and, for a half of a double-byte pair inside the buffer, the
\* address of the other half.
Indexes ==
    LoopAddrs
    \cup {INC_BA(a, Cardinality(Addrs)) :
            a \in {b \in LoopAddrs \cap Addrs :
                        old_screen.ea_buf[b].db = DBCS_LEFT}}
    \cup {DEC_BA(a, Cardinality(Addrs)) :
            a \in {b \in LoopAddrs \cap Addrs :
                        old_screen.ea_buf[b].db = DBCS_RIGHT}}

\* C24: whatever integers the four arguments of ClearRegion are, every buffer
\* index the call reads or writes, the index of the other half of a
\* double-byte pair included, is at least 0 and less than ROWS*COLS, and the
\* call does not end the process.
C24_IndexesInBounds ==
    (handler = "ClearRegion" /\ Len(argv) = 4) =>
        /\ \A i \in Indexes : 0 <= i /\ i < ROWS * COLS
        /\ pc # "crashed"

\* C28: ClearRegion changes no buffer cell outside the rectangle it was
\* asked to clear but the other half of the double-byte pair of an
\* unprotected character cell of the rectangle, and it leaves the geometry
\* of the buffer, the state of the connection tracker, the last-reported
\* counters and every toggle as they were.
C28_ClearRegionFrame ==
    [][handler' = "ClearRegion" =>
        /\ Len(argv') = 4 =>
            \A a \in DOMAIN ea_buf :
                ea_buf'[a] # ea_buf[a] =>
                    \/ a \in InRect'
                    \/ \E b \in InRect' :
                        /\ ~WasSkipped(b)'
                        /\ ea_buf[b].db \in {DBCS_LEFT, DBCS_RIGHT}
                        /\ a = Partner(b)'
        /\ Len(argv') # 4 => ea_buf' = ea_buf
        /\ UNCHANGED <<ROWS, COLS, cstate, old_cstate,
                       brcvd, rrcvd, bsent, rsent, toggle>>]_vars

----------------------------------------------------------------------------
(* Model: failure *)

\* C26: whenever Model, called with one or two arguments, returns failure,
\* be it for a connection, for a bad model name, for a bad oversize or for a
\* geometry that is not the one asked for, the model number, the colour
\* mode, the oversize, ROWS, COLS and the contents of the buffer are what
\* they were before the call.
C26_ModelFailureChangesNothing ==
    [][(handler' = "Model" /\ Len(argv') \in {1, 2} /\ ret' = FALSE) =>
            UNCHANGED <<model_num, m3279, ov_rows, ov_cols,
                        ROWS, COLS, ea_buf>>]_vars

----------------------------------------------------------------------------
(* Stats reporter: the baseline *)

\* C25 as stated: after every tick and after every connect or disconnect
\* boundary the last-reported counters equal the engine's counters, whether
\* or not a stats event was emitted.
C25_BaselineIsEngine_AsStated ==
    [][(\/ handler' = "stats_poll"
        \/ handler' = "b3270_connect"
             /\ (ConnectBoundary \/ DisconnectBoundary))
       => Baseline' = Engine']_vars

\* C25 as amended: after every tick and after every disconnect boundary the
\* last-reported counters equal the engine's counters, whether or not a
\* stats event was emitted; after every connect boundary the last-reported
\* counters are all zero, whatever the engine's counters are.
C25_BaselineIsEngine ==
    [][/\ (\/ handler' = "stats_poll"
           \/ handler' = "b3270_connect" /\ DisconnectBoundary)
          => Baseline' = Engine'
       /\ (handler' = "b3270_connect" /\ ConnectBoundary)
          => Baseline' = <<0, 0, 0, 0>>]_vars

\* A tick has emitted no event, and the last-reported counters are the
\* engine's counters, which are not zero.
C25_Witness ==
    /\ handler = "stats_poll"
    /\ out = <<>>
    /\ Engine # <<0, 0, 0, 0>>
    /\ Baseline = Engine

----------------------------------------------------------------------------
(* Stats reporter: liveness *)

\* The event loop as the stats reporter sees it: the connection tracker, the
\* stats timeout and the engine's counters.
NextStats ==
    \/ \E s \in ModelCStates : b3270_connect(s)
    \/ \E id \in timeouts : stats_poll(id)
    \/ \E k \in 1 .. 4 : net_count(k)
    \/ net_reset

\* A pending timeout expires: the event loop does not leave the stats
\* timeout pending for ever.
TimerFairness == WF_vars(\E id \in timeouts : stats_poll(id))

SpecStats == Init /\ [][NextStats]_vars /\ TimerFairness

\* The engine's counters are not the last-reported ones while the tracker's
\* state is other than not-connected.
UnreportedChange == old_cstate # NOT_CONNECTED /\ Baseline # Engine

\* The handler that ran last has emitted a stats event that carries the
\* engine's counters.
Emitted == \E i \in 1 .. Len(out) : IsStatsOf(out[i], Engine)

\* The stats event emitted last carries the engine's counters.
Reported == lastStats = Engine /\ Baseline = Engine

\* C27 as stated: under fair firing of the stats timer, whenever the
\* engine's counters have changed from the last-reported ones while the
\* tracker's state is other than not-connected, eventually a tick or the
\* final flush at disconnect emits a stats event that carries the engine's
\* counters.
C27_ChangeEventuallyReported_AsStated == UnreportedChange ~> Emitted

\* C27 as amended: under fair firing of the stats timer, whenever the
\* engine's counters have changed from the last-reported ones while the
\* tracker's state is other than not-connected, eventually the stats event
\* emitted last carries the engine's counters: a later tick or the final
\* flush at disconnect emits it, or the engine has set its counters back to
\* the values reported last and nothing is emitted; no change stays
\* unreported for ever.
C27_ChangeEventuallyReported == UnreportedChange ~> Reported

\* The final flush has reported a change the ticks had not yet seen.
C27_Witness ==
    /\ handler = "b3270_connect"
    /\ cstate = NOT_CONNECTED
    /\ Len(out) = 2
    /\ IsStatsOf(out[1], Engine)
    /\ Engine # <<0, 0, 0, 0>>
    /\ Reported

----------------------------------------------------------------------------
(* Codec tables *)

\* The values of a byte.
Bytes == 0 .. 255

\* const unsigned short ebc2asc0[256]: the display (ISO 8859-1) code of
\* every host (EBCDIC) code, eight codes to a line as in the source; a host
\* code that has no display code maps to a space (32).
ebc2asc0 ==
    <<
     32,  32,  32,  32,  32,  32,  32,  32,    \* 00
     32,  32,  32,  32,  32,  32,  32,  32,    \* 08
     32,  32,  32,  32,  32,  32,  32,  32,    \* 10
     32,  32,  32,  32,  42,  32,  59,  32,    \* 18
     32,  32,  32,  32,  32,  32,  32,  32,    \* 20
     32,  32,  32,  32,  32,  32,  32,  32,    \* 28
     32,  32,  32,  32,  32,  32,  32,  32,    \* 30
     32,  32,  32,  32,  32,  32,  32,  32,    \* 38
     32,  32, 226, 228, 224, 225, 227, 229,    \* 40
    231, 241, 162,  46,  60,  40,  43, 124,    \* 48
     38, 233, 234, 235, 232, 237, 238, 239,    \* 50
    236, 223,  33,  36,  42,  41,  59, 172,    \* 58
     45,  47, 194, 196, 192, 193, 195, 197,    \* 60
    199, 209, 166,  44,  37,  95,  62,  63,    \* 68
    248, 201, 202, 203, 200, 205, 206, 207,    \* 70
    204,  96,  58,  35,  64,  39,  61,  34,    \* 78
    216,  97,  98,  99, 100, 101, 102, 103,    \* 80
    104, 105, 171, 187, 240, 253, 254, 177,    \* 88
    176, 106, 107, 108, 109, 110, 111, 112,    \* 90
    113, 114, 170, 186, 230, 184, 198, 164,    \* 98
    181, 126, 115, 116, 117, 118, 119, 120,    \* a0
    121, 122, 161, 191, 208, 221, 222, 174,    \* a8
     94, 163, 165, 183, 169, 167, 182, 188,    \* b0
    189, 190,  91,  93, 175, 168, 180, 215,    \* b8
    123,  65,  66,  67,  68,  69,  70,  71,    \* c0
     72,  73, 173, 244, 246, 242, 243, 245,    \* c8
    125,  74,  75,  76,  77,  78,  79,  80,    \* d0
     81,  82, 185, 251, 252, 249, 250, 255,    \* d8
     92, 247,  83,  84,  85,  86,  87,  88,    \* e0
     89,  90, 178, 212, 214, 210, 211, 213,    \* e8
     48,  49,  50,  51,  52,  53,  54,  55,    \* f0
     56,  57, 179, 219, 220, 217, 218,  32 >>    \* f8

\* const unsigned short asc2ebc0[256]: the host code of every display code;
\* a display code that has no host code maps to 0.
asc2ebc0 ==
    <<
      0,   0,   0,   0,   0,   0,   0,   0,    \* 00
      0,   0,   0,   0,   0,   0,   0,   0,    \* 08
      0,   0,   0,   0,   0,   0,   0,   0,    \* 10
      0,   0,   0,   0,   0,   0,   0,   0,    \* 18
     64,  90, 127, 123,  91, 108,  80, 125,    \* 20
     77,  93,  92,  78, 107,  96,  75,  97,    \* 28
    240, 241, 242, 243, 244, 245, 246, 247,    \* 30
    248, 249, 122,  94,  76, 126, 110, 111,    \* 38
    124, 193, 194, 195, 196, 197, 198, 199,    \* 40
    200, 201, 209, 210, 211, 212, 213, 214,    \* 48
    215, 216, 217, 226, 227, 228, 229, 230,    \* 50
    231, 232, 233, 186, 224, 187, 176, 109,    \* 58
    121, 129, 130, 131, 132, 133, 134, 135,    \* 60
    136, 137, 145, 146, 147, 148, 149, 150,    \* 68
    151, 152, 153, 162, 163, 164, 165, 166,    \* 70
    167, 168, 169, 192,  79, 208, 161,   0,    \* 78
      0,   0,   0,   0,   0,   0,   0,   0,    \* 80
      0,   0,   0,   0,   0,   0,   0,   0,    \* 88
      0,   0,   0,   0,   0,   0,   0,   0,    \* 90
      0,   0,   0,   0,   0,   0,   0,   0,    \* 98
     65, 170,  74, 177, 159, 178, 106, 181,    \* a0
    189, 180, 154, 138,  95, 202, 175, 188,    \* a8
    144, 143, 234, 250, 190, 160, 182, 179,    \* b0
    157, 218, 155, 139, 183, 184, 185, 171,    \* b8
    100, 101,  98, 102,  99, 103, 158, 104,    \* c0
    116, 113, 114, 115, 120, 117, 118, 119,    \* c8
    172, 105, 237, 238, 235, 239, 236, 191,    \* d0
    128, 253, 254, 251, 252, 173, 174,  89,    \* d8
     68,  69,  66,  70,  67,  71, 156,  72,    \* e0
     84,  81,  82,  83,  88,  85,  86,  87,    \* e8
    140,  73, 205, 206, 203, 207, 204, 225,    \* f0
    112, 221, 222, 219, 220, 141, 142, 223 >>    \* f8

\* ebc2asc0[b]: C arrays are indexed from 0, tuples from 1.
ebc2asc(b) == ebc2asc0[b + 1]

\* Mutant: the display code is looked up as a 7-bit code.
asc2ebc_7bit(c) == asc2ebc0[(c % 128) + 1]

\* asc2ebc0[c]
asc2ebc(c) == asc2ebc0[c + 1]

\* The host code ebc is looked up in ebc2asc0.
hostToDisplay ==
    /\ asc = -1
    /\ asc' = ebc2asc(ebc)
    /\ UNCHANGED <<ebc, ebc2, options, opt, v, sep>>
    /\ UNCHANGED <<connVars, verVars, actVars>>

\* The display code that lookup gave is looked up in asc2ebc0.
displayToHost ==
    /\ asc # -1
    /\ ebc2 = -1
    /\ ebc2' = asc2ebc(asc)
    /\ UNCHANGED <<ebc, asc, options, opt, v, sep>>
    /\ UNCHANGED <<connVars, verVars, actVars>>

\* Every host code is looked up.
InitCodec ==
    /\ InitConn
    /\ IdleVer
    /\ IdleAct
    /\ ebc \in Bytes
    /\ asc = -1
    /\ ebc2 = -1
    /\ options = 0
    /\ opt = 0
    /\ v = <<>>
    /\ sep = ""

NextCodec == hostToDisplay \/ displayToHost

SpecCodec == InitCodec /\ [][NextCodec]_vars

\* No other host code has the display code of the host code b.
OnlyHostCodeOf(b) ==
    \A c \in Bytes : ebc2asc(c) = ebc2asc(b) => c = b

\* C21: for every host code that shares its display code in ebc2asc0 with
\* no other host code, asc2ebc0 maps that display code back to the host
\* code: asc2ebc0[ebc2asc0[b]] = b.
C21_CodecRoundTrip ==
    (ebc2 # -1 /\ OnlyHostCodeOf(ebc)) => ebc2 = ebc

\* The host code 66 (hex 42), the only one displayed as 226 (a circumflex),
\* has made the round trip.
C21_Witness ==
    /\ ebc = 66
    /\ OnlyHostCodeOf(ebc)
    /\ asc = 226
    /\ ebc2 = 66

----------------------------------------------------------------------------
(* The SSL options of the ssl-hello event *)

\* SSL_ALL_OPTS has OptBits option bits, the lowest bits of the word.
OptBits == 3

\* An unsigned int has WordBits bits.
WordBits == 4

RECURSIVE Pow2(_)
Pow2(n) == IF n = 0 THEN 1 ELSE 2 * Pow2(n - 1)

\* The values of an unsigned int.
Words == 0 .. (Pow2(WordBits) - 1)

SSL_ALL_OPTS == Pow2(OptBits) - 1

\* a & b
RECURSIVE BitAnd(_, _)
BitAnd(a, b) ==
    IF a = 0 \/ b = 0 THEN 0
    ELSE (a % 2) * (b % 2) + 2 * BitAnd(a \div 2, b \div 2)

\* a << 1, in an unsigned int
ShiftLeft(a) == (2 * a) % Pow2(WordBits)

\* sio_option_name(opt): the name of the option whose bit opt is, and NULL
\* for a word that is not one option bit.
sio_option_name(o) ==
    IF \E i \in 0 .. (OptBits - 1) : o = Pow2(i)
    THEN "option" \o ToString(CHOOSE i \in 0 .. (OptBits - 1) : o = Pow2(i))
    ELSE NULL

\* What an automatic variable holds before anything is assigned to it: any
\* word.
Uninitialized == Words

\* while (SSL_ALL_OPTS & opt)
ScanGoesOn(o) == BitAnd(SSL_ALL_OPTS, o) # 0

\* One pass of the loop of sio_options: the name of the option opt is
\* appended if the option is supported and has a name, and opt moves one bit
\* up.
sio_options_loop ==
    /\ pc = "sio_options"
    /\ ScanGoesOn(opt)
    /\ LET opt_name == sio_option_name(opt)
       IN  IF BitAnd(options, opt) # 0 /\ opt_name # NULL
           THEN /\ v' = v \o <<sep, opt_name>>
                /\ sep' = " "
           ELSE UNCHANGED <<v, sep>>
    /\ opt' = ShiftLeft(opt)
    /\ UNCHANGED <<ebc, asc, ebc2, options>>
    /\ UNCHANGED <<connVars, verVars, actVars>>

\* The loop of sio_options ends, sio_options returns the text of the varbuf
\* and main emits the ssl-hello event with it.
sio_options_return ==
    /\ pc = "sio_options"
    /\ ~ScanGoesOn(opt)
    /\ pc' = "ssl-hello"
    /\ handler' = "main"
    /\ out' = Append(out, ui_vleaf("ssl-hello",
                << <<"supported", <<"true">>>>,
                   <<"provider", <<"OpenSSL">>>>,
                   <<"options", v>> >>))
    /\ UNCHANGED <<connRest, erased, verRest, exit_status, actVars,
                   libVars>>

\* main() has reached the ssl-hello event and calls sio_options():
\* sio_options_supported() returns some of the options, the varbuf is
\* empty, sep is "" and opt has not been assigned to.
InitSio ==
    /\ InitConn
    /\ pc = "sio_options"
    /\ text = <<>>
    /\ parsed = [ok |-> FALSE, major |-> 0, minor |-> 0, iteration |-> 0]
    /\ build_rpq_version = <<>>
    /\ min_version = <<"NULL">>
    /\ our_major = 0 /\ our_minor = 0 /\ our_iteration = 0
    /\ exit_status = -1
    /\ IdleAct
    /\ ebc = 0
    /\ asc = -1
    /\ ebc2 = -1
    /\ options \in 0 .. SSL_ALL_OPTS
    /\ opt \in Uninitialized
    /\ v = <<>>
    /\ sep = ""

NextSio ==
    \/ sio_options_loop
    \/ sio_options_return
    \/ main_ready

\* The program runs: a step that can be taken is taken.
SpecSio == InitSio /\ [][NextSio]_vars /\ WF_vars(NextSio)

\* The pieces of the list of the names of the options of the bits i and
\* up that are supported and have a name, in ascending bit order, after the
\* separator s.
RECURSIVE NamesFrom(_, _, _)
NamesFrom(i, s, supported) ==
    IF i >= OptBits THEN <<>>
    ELSE IF BitAnd(supported, Pow2(i)) # 0 /\ sio_option_name(Pow2(i)) # NULL
         THEN <<s, sio_option_name(Pow2(i))>>
                \o NamesFrom(i + 1, " ", supported)
         ELSE NamesFrom(i + 1, s, supported)

\* The options attribute of the ssl-hello event that was emitted.
OptionsAttr == AttrValue(EventsOf(out, "ssl-hello")[1], "options")

\* C29: the scan of sio_options ends, whatever the memory it runs in held
\* before, and the options attribute of the ssl-hello event lists the name
\* of every option bit of SSL_ALL_OPTS that is supported and has a name,
\* each once, in ascending bit order, from the lowest bit.
C29_OptionsListed ==
    <>(/\ pc = "ready"
       /\ Len(EventsOf(out, "ssl-hello")) = 1
       /\ OptionsAttr = NamesFrom(0, "", options))

============================================================================
